---- MODULE Spec2Model ----
(***************************************************************************)
(* Model of scim2-tester's attribute addressing (urns.py), value           *)
(* synthesis (filling.py) and resource lifecycle manager (utils.py).       *)
(*                                                                         *)
(* Strings the code cuts up (URNs, locations) are sequences of tokens, so  *)
(* that startswith / removeprefix / split / rsplit are computed, not       *)
(* assumed.  Python values are tagged records; an operation that draws at  *)
(* random or talks to the server is the set of its possible outcomes.      *)
(***************************************************************************)
EXTENDS Integers, Sequences, FiniteSets, TLC

VARIABLES resources, calls, result, nextId

vars == <<resources, calls, result, nextId>>

\* ------------------------------------------------------------------ bounds

\* The registry may hold at most this many resources when an operation starts.
MaxResources == 2

\* Depth of nested create_and_register calls after which the interpreter
\* gives up (Python's recursion limit, scaled down).
MaxDepth == 3

\* ------------------------------------------------------------------ values

NoneV == [t |-> "none"]
StrV(s) == [t |-> "str", s |-> s]
BoolV(b) == [t |-> "bool", b |-> b]
ListV(items) == [t |-> "list", items |-> items]
ObjV(model, f) == [t |-> "obj", model |-> model, f |-> f]
\* What a client returns when the answer is no resource (a dict, an Error).
DictV == [t |-> "dict"]

IsNone(v) == v.t = "none"
IsList(v) == v.t = "list"
IsObj(v) == v.t = "obj"

\* Python truthiness of a value.
Truthy(v) ==
  CASE v.t = "none" -> FALSE
    [] v.t = "str" -> Len(v.s) > 0
    [] v.t = "bool" -> v.b
    [] v.t = "int" -> v.n # 0
    [] v.t = "list" -> Len(v.items) > 0
    [] OTHER -> TRUE

\* ------------------------------------------------------------------ schema
\* The schema model is what scim2_models gives the code: per model an
\* ordered field list, per field its root type, multiplicity, mutability,
\* required-ness, the model of a complex or extension field, the target
\* kinds of a reference and the declared examples.

Fld(name, type, multi, mut, req, sub, targets) ==
  [name |-> name, type |-> type, multi |-> multi, mut |-> mut, req |-> req,
   sub |-> sub, targets |-> targets, examples |-> <<>>]

RW == "readWrite"
RO == "readOnly"
WO == "writeOnly"
IMM == "immutable"
ReqTrue == "true"
ReqFalse == "false"

\* Fields every Resource has (scim2_models.Resource).
ResourceFields ==
  << Fld("schemas", "str", TRUE, RW, ReqTrue, "", <<>>),
     Fld("id", "str", FALSE, RO, ReqFalse, "", <<>>),
     Fld("meta", "complex", FALSE, RO, ReqFalse, "Meta", <<>>) >>

ModelFields ==
  [ User |-> ResourceFields \o
      << Fld("user_name", "str", FALSE, RW, ReqTrue, "", <<>>),
         Fld("name", "complex", FALSE, RW, ReqFalse, "Name", <<>>),
         Fld("emails", "complex", TRUE, RW, ReqFalse, "Email", <<>>),
         Fld("EnterpriseUser", "ext", FALSE, RW, ReqFalse, "EnterpriseUser", <<>>) >>,
    Name |->
      << Fld("family_name", "str", FALSE, RW, ReqFalse, "", <<>>),
         Fld("given_name", "str", FALSE, RW, ReqFalse, "", <<>>) >>,
    Email |->
      << Fld("value", "str", FALSE, RW, ReqFalse, "", <<>>),
         Fld("primary", "bool", FALSE, RW, ReqFalse, "", <<>>) >>,
    EnterpriseUser |->
      << Fld("schemas", "str", TRUE, RW, ReqTrue, "", <<>>),
         Fld("employee_number", "str", FALSE, RW, ReqFalse, "", <<>>),
         Fld("manager", "complex", FALSE, RW, ReqFalse, "Manager", <<>>) >>,
    Manager |->
      << Fld("value", "str", FALSE, RW, ReqTrue, "", <<>>),
         Fld("ref", "ref", FALSE, RW, ReqTrue, "", <<"User">>),
         Fld("display_name", "str", FALSE, RO, ReqFalse, "", <<>>) >>,
    Group |-> ResourceFields \o
      << Fld("display_name", "str", FALSE, RW, ReqTrue, "", <<>>),
         Fld("members", "complex", TRUE, RW, ReqFalse, "GroupMember", <<>>) >>,
    GroupMember |->
      << Fld("value", "str", FALSE, IMM, ReqFalse, "", <<>>),
         Fld("ref", "ref", FALSE, IMM, ReqFalse, "", <<"User", "Group">>),
         Fld("display", "str", FALSE, RO, ReqFalse, "", <<>>) >>,
    \* A custom resource type, as a server may declare one.
    Device |-> ResourceFields \o
      << Fld("serial", "str", FALSE, RO, ReqTrue, "", <<>>),
         Fld("owner", "ref", FALSE, RW, ReqTrue, "", <<"User">>),
         Fld("hardware", "complex", FALSE, RW, ReqTrue, "Hardware", <<>>),
         Fld("peer", "ref", FALSE, RW, ReqFalse, "", <<"Device", "Group">>),
         Fld("twin", "ref", FALSE, RW, ReqFalse, "", <<"Device">>),
         Fld("link", "complex", FALSE, RW, ReqFalse, "Link", <<>>),
         Fld("DeviceExt", "ext", FALSE, RW, ReqFalse, "DeviceExt", <<>>) >>,
    Hardware |->
      << Fld("model", "str", FALSE, RW, ReqTrue, "", <<>>),
         Fld("revision", "str", FALSE, RO, ReqTrue, "", <<>>),
         Fld("note", "str", FALSE, RW, ReqFalse, "", <<>>) >>,
    Link |->
      << Fld("value", "str", FALSE, RW, ReqFalse, "", <<>>),
         Fld("ref", "ref", FALSE, RW, ReqFalse, "", <<"Device", "User">>) >>,
    DeviceExt |->
      << Fld("schemas", "str", TRUE, RW, ReqTrue, "", <<>>),
         Fld("contacts", "complex", TRUE, RW, ReqFalse, "Contact", <<>>) >>,
    Contact |->
      << Fld("value", "str", FALSE, RW, ReqFalse, "", <<>>),
         Fld("primary", "bool", FALSE, RW, ReqFalse, "", <<>>) >>,
    Meta |->
      << Fld("resource_type", "str", FALSE, RO, ReqFalse, "", <<>>),
         Fld("location", "str", FALSE, RO, ReqFalse, "", <<>>) >>,
    \* Custom resource types whose required references form a cycle: a
    \* node requires its parent node, a ping and a pong require each other.
    Node |-> ResourceFields \o
      << Fld("parent", "ref", FALSE, RW, ReqTrue, "", <<"Node">>) >>,
    Ping |-> ResourceFields \o
      << Fld("pong", "ref", FALSE, RW, ReqTrue, "", <<"Pong">>) >>,
    Pong |-> ResourceFields \o
      << Fld("ping", "ref", FALSE, RW, ReqTrue, "", <<"Ping">>) >> ]

\* The names of the models declared: the domain of ModelFields.
ModelNames ==
  { "User", "Name", "Email", "EnterpriseUser", "Manager", "Group",
    "GroupMember", "Device", "Hardware", "Link", "DeviceExt", "Contact",
    "Meta", "Node", "Ping", "Pong" }

\* The resource kinds the checks run on (client.get_resource_model).
ResourceKinds == {"User", "Group", "Device"}

\* The resource kinds whose required references lead back to themselves.
CyclicKinds == {"Node", "Ping", "Pong"}

IsResource(m) == m \in ResourceKinds \cup CyclicKinds
IsExtension(m) == m \in {"EnterpriseUser", "DeviceExt"}

\* model.model_fields["schemas"].default[0]
SchemaOf(m) ==
  CASE m = "User" -> <<"urn", ":", "core", ":", "User">>
    [] m = "Group" -> <<"urn", ":", "core", ":", "Group">>
    [] m = "Device" -> <<"urn", ":", "x", ":", "Device">>
    [] m \in CyclicKinds -> <<"urn", ":", "x", ":", m>>
    [] m = "EnterpriseUser" -> <<"urn", ":", "ent", ":", "User">>
    [] m = "DeviceExt" -> <<"urn", ":", "x", ":", "DeviceExt">>
    [] OTHER -> <<>>

\* model.get_extension_models(): extension schema -> extension model, in order.
ExtensionModels(m) ==
  CASE m = "User" -> <<"EnterpriseUser">>
    [] m = "Device" -> <<"DeviceExt">>
    [] OTHER -> <<>>


\* ------------------------------------------------- scim2_models helpers

\* The elements of a sequence.
Range(seq) == {seq[i] : i \in 1..Len(seq)}

\* model.model_fields, in declaration order.
Fields(m) == IF m \in ModelNames THEN ModelFields[m] ELSE <<>>

FieldNames(m) == {f.name : f \in Range(Fields(m))}

\* The descriptor of a field of a model.
FieldInfo(m, name) == CHOOSE f \in Range(Fields(m)) : f.name = name

\* scim2_models.utils._to_camel: snake_case to camelCase.
to_camel(name) ==
  CASE name = "user_name" -> "userName"
    [] name = "family_name" -> "familyName"
    [] name = "given_name" -> "givenName"
    [] name = "employee_number" -> "employeeNumber"
    [] name = "display_name" -> "displayName"
    [] name = "resource_type" -> "resourceType"
    [] OTHER -> name

\* scim2_models.utils._normalize_attribute_name on one token: drop what is
\* not alphanumeric, lower the case.
NormalizeToken(tok) ==
  CASE tok \in {"user_name", "userName"} -> "username"
    [] tok \in {"family_name", "familyName"} -> "familyname"
    [] tok \in {"given_name", "givenName"} -> "givenname"
    [] tok \in {"employee_number", "employeeNumber"} -> "employeenumber"
    [] tok \in {"display_name", "displayName"} -> "displayname"
    [] tok \in {"resource_type", "resourceType"} -> "resourcetype"
    [] tok = "EnterpriseUser" -> "enterpriseuser"
    [] tok = "DeviceExt" -> "deviceext"
    [] tok = "User" -> "user"
    [] tok \in {".", ":", "/", "_"} -> ""
    [] OTHER -> tok

RECURSIVE NormalizeFrom(_, _)
NormalizeFrom(s, i) ==
  IF i > Len(s) THEN "" ELSE NormalizeToken(s[i]) \o NormalizeFrom(s, i + 1)

\* _normalize_attribute_name on a whole string.
Normalize(s) == NormalizeFrom(s, 1)

\* The result "no field" of _find_field_name.
NoField == ""

\* The name of the first of the fields whose normalized name is norm, None
\* without any.
FirstField(fields, norm) ==
  IF \A i \in 1..Len(fields) : NormalizeToken(fields[i].name) # norm
    THEN NoField
  ELSE fields[CHOOSE i \in 1..Len(fields) :
                /\ NormalizeToken(fields[i].name) = norm
                /\ \A j \in 1..(i - 1) : NormalizeToken(fields[j].name) # norm].name

\* scim2_models.utils._find_field_name: the first field of the model whose
\* normalized name is the normalized attribute name, or None.
find_field_name(m, attr) == FirstField(Fields(m), Normalize(attr))

\* model.get_field_root_type(field_name), as a descriptor of the type.
get_field_root_type(m, name) ==
  [k \in {"kind", "sub", "targets"} |->
     FieldInfo(m, name)[IF k = "kind" THEN "type" ELSE k]]

\* model.get_field_annotation(field_name, Required | Mutability)
get_field_annotation(m, name, annotation) ==
  FieldInfo(m, name)[IF annotation = "Required" THEN "req" ELSE "mut"]

\* model.get_field_multiplicity(field_name)
get_field_multiplicity(m, name) == FieldInfo(m, name).multi

\* model(): an instance with every field unset but schemas, which holds
\* its default.
EmptyObj(m) ==
  ObjV(m, [n \in FieldNames(m) |->
             IF n = "schemas" THEN ListV(<<StrV(SchemaOf(m))>>) ELSE NoneV])

\* getattr(obj, name)
GetAttr(obj, name) == obj.f[name]

\* setattr(obj, name, value)
SetAttr(obj, name, value) == [obj EXCEPT !.f[name] = value]

\* hasattr(value, name)
HasAttr(v, name) == IsObj(v) /\ name \in FieldNames(v.model)

\* ---------------------------------------------------------- str methods

\* token in s
Contains(s, tok) == \E i \in 1..Len(s) : s[i] = tok

\* s.startswith(prefix)
StartsWith(s, prefix) ==
  /\ Len(prefix) <= Len(s)
  /\ \A i \in 1..Len(prefix) : s[i] = prefix[i]

\* s.removeprefix(prefix)
RemovePrefix(s, prefix) ==
  IF StartsWith(s, prefix) THEN SubSeq(s, Len(prefix) + 1, Len(s)) ELSE s

\* s.removeprefix(schema).removeprefix(":")
StripSchema(s, schema) == RemovePrefix(RemovePrefix(s, schema), <<":">>)

\* s.endswith(suffix)
EndsWith(s, suffix) ==
  /\ Len(suffix) <= Len(s)
  /\ \A i \in 1..Len(suffix) : s[Len(s) - Len(suffix) + i] = suffix[i]

\* s.split(sep): the pieces between the separators, in order.
RECURSIVE SplitFrom(_, _, _, _)
SplitFrom(s, sep, i, cur) ==
  IF i > Len(s) THEN <<cur>>
  ELSE IF s[i] = sep THEN <<cur>> \o SplitFrom(s, sep, i + 1, <<>>)
  ELSE SplitFrom(s, sep, i + 1, Append(cur, s[i]))

Split(s, sep) == SplitFrom(s, sep, 1, <<>>)

\* The positions of sep in s.
Positions(s, sep) == {i \in 1..Len(s) : s[i] = sep}

\* s.rsplit(sep, 1)[-1]: what follows the last separator, the whole string
\* when there is none.
RSplitLast(s, sep) ==
  IF Positions(s, sep) = {} THEN s
  ELSE SubSeq(s, 1 + (CHOOSE i \in Positions(s, sep) :
                        \A j \in Positions(s, sep) : j <= i),
              Len(s))

\* A faulty reversed(seq): the sequence in its own order.
Forward(s) == s

\* reversed(seq)
Reversed(s) == [i \in 1..Len(s) |-> s[Len(s) + 1 - i]]

\* ------------------------------------------------------------- urns.py

\* A required / mutability filter: None, or the list of admitted values.
NoFilter == [none |-> TRUE, vals |-> {}]
Only(vals) == [none |-> FALSE, vals |-> vals]

\* The URN iter_urns gives a field of the given root type (urns.py 40-45).
FieldUrn(model, field_name, field_type) ==
  IF field_type.kind = "ext" THEN SchemaOf(field_type.sub)
  ELSE IF IsExtension(model)
    THEN SchemaOf(model) \o <<":", to_camel(field_name)>>
  ELSE <<to_camel(field_name)>>

\* A faulty filter: id, meta and schemas are treated like any field.
PassesFiltersAll(model, field_name, required, mutability) ==
  /\ required.none
       \/ get_field_annotation(model, field_name, "Required") \in required.vals
  /\ mutability.none
       \/ get_field_annotation(model, field_name, "Mutability") \in mutability.vals

\* Whether iter_urns keeps a field under the filters (urns.py 23-36).
PassesFilters(model, field_name, required, mutability) ==
  /\ field_name \notin {"meta", "id", "schemas"}
  /\ required.none
       \/ get_field_annotation(model, field_name, "Required") \in required.vals
  /\ mutability.none
       \/ get_field_annotation(model, field_name, "Mutability") \in mutability.vals

\* What iter_urns yields for a field it keeps (urns.py 47-53): its URN
\* and, after a complex attribute, one sub-attribute URN per field of the
\* complex type, unfiltered.
YieldField(urn, field_type, include_subattributes) ==
  <<urn>> \o (IF include_subattributes /\ field_type.kind = "complex"
                THEN [j \in 1..Len(Fields(field_type.sub)) |->
                        urn \o <<".", to_camel(Fields(field_type.sub)[j].name)>>]
              ELSE <<>>)

\* One turn of the loop of iter_urns.
IterField(model, field_name, required, mutability, include_subattributes) ==
  IF ~PassesFilters(model, field_name, required, mutability) THEN <<>>
  ELSE YieldField(FieldUrn(model, field_name,
                           get_field_root_type(model, field_name)),
                  get_field_root_type(model, field_name),
                  include_subattributes)

RECURSIVE iter_urns_from(_, _, _, _, _)
iter_urns_from(model, required, mutability, include_subattributes, i) ==
  IF i > Len(Fields(model)) THEN <<>>
  ELSE IterField(model, Fields(model)[i].name, required, mutability,
                 include_subattributes)
       \o iter_urns_from(model, required, mutability, include_subattributes, i + 1)

\* iter_urns: the URNs of the attributes of one model that pass the filters.
iter_urns(model, required, mutability, include_subattributes) ==
  iter_urns_from(model, required, mutability, include_subattributes, 1)

RECURSIVE iter_ext_urns(_, _, _, _, _)
iter_ext_urns(exts, required, mutability, include_subattributes, k) ==
  IF k > Len(exts) THEN <<>>
  ELSE iter_urns(exts[k], required, mutability, include_subattributes)
       \o iter_ext_urns(exts, required, mutability, include_subattributes, k + 1)

\* iter_all_urns: the URNs of the base model, then of each extension.
iter_all_urns(model, required, mutability, include_subattributes) ==
  iter_urns(model, required, mutability, include_subattributes)
  \o (IF IsResource(model)
        THEN iter_ext_urns(ExtensionModels(model), required, mutability,
                           include_subattributes, 1)
        ELSE <<>>)

\* The loop over the extensions in get_target_model_by_urn (urns.py 97-106):
\* it runs to the end, rewriting model and urn as it goes.
RECURSIVE TargetExtLoop(_, _, _, _)
TargetExtLoop(exts, k, model, urn) ==
  IF k > Len(exts) THEN [model |-> model, urn |-> urn]
  ELSE IF urn = SchemaOf(exts[k])
    THEN TargetExtLoop(exts, k + 1, model, <<exts[k]>>)
  ELSE IF StartsWith(urn, SchemaOf(exts[k]))
    THEN TargetExtLoop(exts, k + 1, exts[k], StripSchema(urn, SchemaOf(exts[k])))
  ELSE TargetExtLoop(exts, k + 1, model, urn)

\* The URN prefix handling of get_target_model_by_urn (urns.py 89-106).
TargetPrefix(model, urn) ==
  IF Contains(urn, ":") /\ (IsResource(model) \/ IsExtension(model))
  THEN IF StartsWith(urn, SchemaOf(model))
         THEN [model |-> model, urn |-> StripSchema(urn, SchemaOf(model))]
       ELSE IF IsResource(model)
         THEN TargetExtLoop(ExtensionModels(model), 1, model, urn)
       ELSE [model |-> model, urn |-> urn]
  ELSE [model |-> model, urn |-> urn]

\* The class a hop leads to: the model of a complex or extension field,
\* a class without fields otherwise.
HopModel(field_type) ==
  IF field_type.kind \in {"complex", "ext"} THEN field_type.sub
  ELSE field_type.kind

NoTarget == [status |-> "none", model |-> "", field |-> NoField]
Target(model, field_name) == [status |-> "ok", model |-> model, field |-> field_name]
TargetRaised(model) == [status |-> "raise", model |-> model, field |-> NoField]

RECURSIVE TargetWalk(_, _, _)

\* A faulty intermediate part: a multi-valued attribute ends the walk.
TargetHopSingle(current_model, field_name, parts, i) ==
  IF field_name = NoField THEN NoTarget
  ELSE IF get_field_multiplicity(current_model, field_name) THEN NoTarget
  ELSE TargetWalk(HopModel(get_field_root_type(current_model, field_name)),
                  parts, i + 1)

\* One intermediate part of the walk (urns.py 113-117).
TargetHop(current_model, field_name, parts, i) ==
  IF field_name = NoField THEN NoTarget
  ELSE TargetWalk(HopModel(get_field_root_type(current_model, field_name)),
                  parts, i + 1)

\* The walk over the dotted parts (urns.py 108-121); the last part is not
\* checked to name a field (urns.py 119-121).
TargetWalk(current_model, parts, i) ==
  IF current_model \notin ModelNames THEN TargetRaised(current_model)
  ELSE IF i = Len(parts)
    THEN Target(current_model, find_field_name(current_model, parts[i]))
  ELSE TargetHop(current_model, find_field_name(current_model, parts[i]),
                 parts, i)

\* get_target_model_by_urn once the URN prefix is handled (urns.py 108-126).
TargetLocal(model, urn) ==
  IF Contains(urn, ".") THEN TargetWalk(model, Split(urn, "."), 1)
  ELSE IF model \notin ModelNames THEN TargetRaised(model)
  ELSE IF find_field_name(model, urn) = NoField THEN NoTarget
  ELSE Target(model, find_field_name(model, urn))

\* get_target_model_by_urn: (owning model, field name), None, or an
\* exception of the library.
get_target_model_by_urn(model, urn) ==
  TargetLocal(TargetPrefix(model, urn).model, TargetPrefix(model, urn).urn)

\* The type of the target: None for a path that does not resolve, "raise"
\* for one whose lookup raised.
TypeOfTarget(target) ==
  IF target.status = "none" THEN [kind |-> "None", sub |-> "", targets |-> <<>>]
  ELSE IF target.status = "raise" \/ target.field = NoField
    THEN [kind |-> "raise", sub |-> "", targets |-> <<>>]
  ELSE get_field_root_type(target.model, target.field)

\* get_attribute_type_by_urn
get_attribute_type_by_urn(model, urn) ==
  TypeOfTarget(get_target_model_by_urn(model, urn))

AnnotationOfTarget(annotation_type, target) ==
  IF target.status = "none" THEN "None"
  ELSE IF target.status = "raise" \/ target.field = NoField THEN "raise"
  ELSE get_field_annotation(target.model, target.field, annotation_type)

\* get_annotation_by_urn: the annotation, "None", or "raise".
get_annotation_by_urn(annotation_type, urn, model) ==
  AnnotationOfTarget(annotation_type, get_target_model_by_urn(model, urn))

MultiplicityOfTarget(target) ==
  IF target.status = "ok" /\ target.field # NoField
    THEN get_field_multiplicity(target.model, target.field)
  ELSE FALSE

\* get_multiplicity_by_urn; None counts as false where it is used.
get_multiplicity_by_urn(model, urn) ==
  MultiplicityOfTarget(get_target_model_by_urn(model, urn))

\* The result of a set: the instance afterwards and the exception raised.
SetOk(obj) == [obj |-> obj, exc |-> ""]
SetRaise(obj, e) == [obj |-> obj, exc |-> e]

\* A faulty Into: the sub-object written to is never attached to its parent.
IntoDetached(obj, field_name, r) == [obj |-> obj, exc |-> r.exc]

\* The parent with the outcome r of a set below its field.
Into(obj, field_name, r) ==
  [obj |-> SetAttr(obj, field_name, r.obj), exc |-> r.exc]

\* field_type(): an empty instance of a complex type, "" of a primitive.
Fresh(field_type) ==
  IF field_type.kind \in {"complex", "ext"} THEN EmptyObj(field_type.sub)
  ELSE StrV(<<>>)

RECURSIVE SetWalk(_, _, _, _)

\* A faulty intermediate part: a list is walked into like an object.
SetHopIntoList(current_obj, field_name, parts, i, value) ==
  IF field_name = NoField THEN SetOk(current_obj)
  ELSE IF IsNone(GetAttr(current_obj, field_name))
    THEN Into(current_obj, field_name,
              SetWalk(Fresh(get_field_root_type(current_obj.model, field_name)),
                      parts, i + 1, value))
  ELSE Into(current_obj, field_name,
            SetWalk(GetAttr(current_obj, field_name), parts, i + 1, value))

\* One intermediate part of the dotted branch (urns.py 236-248).
SetHop(current_obj, field_name, parts, i, value) ==
  IF field_name = NoField THEN SetOk(current_obj)
  ELSE IF IsNone(GetAttr(current_obj, field_name))
    THEN Into(current_obj, field_name,
              SetWalk(Fresh(get_field_root_type(current_obj.model, field_name)),
                      parts, i + 1, value))
  ELSE IF IsList(GetAttr(current_obj, field_name)) THEN SetOk(current_obj)
  ELSE Into(current_obj, field_name,
            SetWalk(GetAttr(current_obj, field_name), parts, i + 1, value))

\* The last part of the dotted branch (urns.py 250-252).
SetLast(current_obj, field_name, value) ==
  IF field_name = NoField THEN SetRaise(current_obj, "TypeError")
  ELSE SetOk(SetAttr(current_obj, field_name, value))

\* The dotted branch of set_value_by_urn (urns.py 232-252), from part i on.
SetWalk(current_obj, parts, i, value) ==
  IF ~IsObj(current_obj) THEN SetRaise(current_obj, "AttributeError")
  ELSE IF i = Len(parts)
    THEN SetLast(current_obj, find_field_name(current_obj.model, parts[i]), value)
  ELSE SetHop(current_obj, find_field_name(current_obj.model, parts[i]),
              parts, i, value)

\* The undotted branch of set_value_by_urn (urns.py 254-264).
SetField(obj, field_name, value) ==
  IF field_name = NoField THEN SetOk(obj)
  ELSE IF get_field_multiplicity(obj.model, field_name)
          /\ ~IsList(value) /\ ~IsNone(value)
    THEN SetOk(SetAttr(obj, field_name, ListV(<<value>>)))
  ELSE SetOk(SetAttr(obj, field_name, value))

\* The branches of set_value_by_urn below the URN prefix (urns.py 232-264).
SetLocal(obj, urn, value) ==
  IF Contains(urn, ".") THEN SetWalk(obj, Split(urn, "."), 1, value)
  ELSE SetField(obj, find_field_name(obj.model, urn), value)

\* set_value_by_urn on an extension object or on a path of the object's own
\* schema (urns.py 215-219, then 232-264).
SetOwn(obj, urn, value) ==
  IF Contains(urn, ":")
  THEN IF "schemas" \notin FieldNames(obj.model) THEN SetRaise(obj, "KeyError")
       ELSE IF StartsWith(urn, SchemaOf(obj.model))
         THEN SetLocal(obj, StripSchema(urn, SchemaOf(obj.model)), value)
       ELSE SetLocal(obj, urn, value)
  ELSE SetLocal(obj, urn, value)

\* The loop over the extensions in set_value_by_urn (urns.py 222-230): the
\* first extension whose schema is, or starts, the URN ends the call; the
\* extension object is created when unset (urns.py 228-229).
RECURSIVE SetExtLoop(_, _, _, _, _)
SetExtLoop(obj, exts, k, urn, value) ==
  IF k > Len(exts) THEN SetLocal(obj, urn, value)
  ELSE IF urn = SchemaOf(exts[k]) THEN SetOk(SetAttr(obj, exts[k], value))
  ELSE IF StartsWith(urn, SchemaOf(exts[k]))
    THEN Into(obj, exts[k],
              SetOwn(IF IsNone(GetAttr(obj, exts[k])) THEN EmptyObj(exts[k])
                     ELSE GetAttr(obj, exts[k]),
                     StripSchema(urn, SchemaOf(exts[k])), value))
  ELSE SetExtLoop(obj, exts, k + 1, urn, value)

\* set_value_by_urn: the instance after the call, and what it raised.
set_value_by_urn(obj, urn, value) ==
  IF Contains(urn, ":") /\ "schemas" \in FieldNames(obj.model)
     /\ ~StartsWith(urn, SchemaOf(obj.model)) /\ IsResource(obj.model)
    THEN SetExtLoop(obj, ExtensionModels(obj.model), 1, urn, value)
  ELSE SetOwn(obj, urn, value)

\* The result of a get that returned: the value, and no exception.
Got(v) == [v |-> v, exc |-> ""]

\* The last part of a path in get_value_by_urn (urns.py 200-205, 207-211).
GetLast(current_obj, field_name) ==
  IF field_name = NoField THEN Got(NoneV)
  ELSE Got(GetAttr(current_obj, field_name))

RECURSIVE GetWalk(_, _, _)

\* One intermediate part of the dotted branch (urns.py 190-198): the value
\* found becomes the current object, whatever it is.
GetHop(current_obj, field_name, parts, i) ==
  IF field_name = NoField THEN Got(NoneV)
  ELSE IF IsNone(GetAttr(current_obj, field_name)) THEN Got(NoneV)
  ELSE GetWalk(GetAttr(current_obj, field_name), parts, i + 1)

\* The dotted branch of get_value_by_urn (urns.py 186-205), from part i on;
\* _find_field_name reads type(current_obj).model_fields, which a list or a
\* primitive value does not have.
GetWalk(current_obj, parts, i) ==
  IF ~IsObj(current_obj) THEN [v |-> NoneV, exc |-> "AttributeError"]
  ELSE IF i = Len(parts)
    THEN GetLast(current_obj, find_field_name(current_obj.model, parts[i]))
  ELSE GetHop(current_obj, find_field_name(current_obj.model, parts[i]),
              parts, i)

\* The branches of get_value_by_urn below the URN prefix (urns.py 186-211).
GetLocal(obj, urn) ==
  IF Contains(urn, ".") THEN GetWalk(obj, Split(urn, "."), 1)
  ELSE GetLast(obj, find_field_name(obj.model, urn))

\* get_value_by_urn on an extension object or on a path of the object's own
\* schema (urns.py 164-169, then 186-211).
GetOwn(obj, urn) ==
  IF Contains(urn, ":")
  THEN IF "schemas" \notin FieldNames(obj.model) THEN [v |-> NoneV, exc |-> "KeyError"]
       ELSE IF StartsWith(urn, SchemaOf(obj.model))
         THEN GetLocal(obj, StripSchema(urn, SchemaOf(obj.model)))
       ELSE GetLocal(obj, urn)
  ELSE GetLocal(obj, urn)

\* The loop over the extensions in get_value_by_urn (urns.py 170-184): an
\* extension's own schema is rewritten to its field name and the loop goes
\* on; a schema that starts the URN ends the call.
RECURSIVE GetExtLoop(_, _, _, _)
GetExtLoop(obj, exts, k, urn) ==
  IF k > Len(exts) THEN GetLocal(obj, urn)
  ELSE IF urn = SchemaOf(exts[k]) THEN GetExtLoop(obj, exts, k + 1, <<exts[k]>>)
  ELSE IF StartsWith(urn, SchemaOf(exts[k]))
    THEN IF IsNone(GetAttr(obj, exts[k])) THEN Got(NoneV)
         ELSE GetOwn(GetAttr(obj, exts[k]), StripSchema(urn, SchemaOf(exts[k])))
  ELSE GetExtLoop(obj, exts, k + 1, urn)

\* get_value_by_urn: the value at the path, None, or an exception.
get_value_by_urn(obj, urn) ==
  IF Contains(urn, ":") /\ "schemas" \in FieldNames(obj.model)
     /\ ~StartsWith(urn, SchemaOf(obj.model)) /\ IsResource(obj.model)
    THEN GetExtLoop(obj, ExtensionModels(obj.model), 1, urn)
  ELSE GetOwn(obj, urn)

\* -------------------------------------------------- outcomes, the client

\* The world an operation runs in: the registry (ResourceManager.resources),
\* the calls the client has received, the server's id counter.
World(rs, cs, n) == [resources |-> rs, calls |-> cs, nextId |-> n]

\* An operation that returned a value, or raised, leaving the world w.
Leaf(w, v) == {[w |-> w, v |-> v, exc |-> ""]}
Raise(w, e) == {[w |-> w, v |-> NoneV, exc |-> e]}

\* What a call raised, as the response recorded for it.
RaisedV(e) == [t |-> "exc", e |-> e]

Call(op, model, arg, resp) ==
  [op |-> op, model |-> model, arg |-> arg, resp |-> resp]

\* The world after the client received a call; a created resource takes
\* the next id.
Called(w, call, ids) ==
  World(w.resources, Append(w.calls, call), w.nextId + ids)

\* The instance the server returns for a created object: with an id and a
\* meta.location ("full"), or with neither ("bare").
ServerCreated(obj, shape, n) ==
  [obj EXCEPT
     !.f["id"] = IF shape = "bare" THEN NoneV ELSE StrV(<<ToString(n)>>),
     !.f["meta"] = IF shape = "bare" THEN NoneV
                   ELSE ObjV("Meta",
                          [resource_type |-> StrV(<<obj.model>>),
                           location |-> StrV(<<"host", "/", obj.model \o "s", "/",
                                              ToString(n)>>)])]

\* The client answers a create with `created`.
Answered(w, obj, created, ids) ==
  [w |-> Called(w, Call("create", obj.model, obj, created), ids),
   v |-> created, exc |-> ""]

\* client.create(obj): the server answers with a resource, with something
\* that is no resource, or the client raises.
ClientCreate(w, obj) ==
  { Answered(w, obj, ServerCreated(obj, shape, w.nextId), 1)
    : shape \in {"full", "bare"} }
  \cup { Answered(w, obj, DictV, 0) }
  \cup { [w |-> Called(w, Call("create", obj.model, obj,
                               RaisedV("SCIMClientError")), 0),
          v |-> NoneV, exc |-> "SCIMClientError"] }

\* client.delete(model, id); it may raise: the resource is already gone,
\* anything else.
ClientDelete(w, model, id) ==
  { [w |-> Called(w, Call("delete", model, id, NoneV), 0),
     v |-> NoneV, exc |-> ""] }
  \cup
  { [w |-> Called(w, Call("delete", model, id, RaisedV(e)), 0),
     v |-> NoneV, exc |-> e]
    : e \in {"NotFound", "Exception"} }

\* ---------------------------------------------------------- filling.py

\* fix_reference_values_in_value on one item (filling.py 218-223, 224-229).
FixReferenceItem(item) ==
  IF HasAttr(item, "ref") /\ HasAttr(item, "value")
     /\ Truthy(GetAttr(item, "ref"))
    THEN SetAttr(item, "value", StrV(RSplitLast(GetAttr(item, "ref").s, "/")))
  ELSE item

\* A faulty fix_reference_values_in_value: the value as it came.
NoFix(value) == value

\* fix_reference_values_in_value: the identifier of a reference object is
\* the tail of its URL.
fix_reference_values_in_value(value) ==
  IF IsList(value)
    THEN ListV([i \in 1..Len(value.items) |-> FixReferenceItem(value.items[i])])
  ELSE FixReferenceItem(value)

\* The items of a list with primary set on the one at primary_index
\* (filling.py 254-255).
WithPrimary(items, primary_index) ==
  [i \in 1..Len(items) |-> SetAttr(items[i], "primary", BoolV(i = primary_index))]

RECURSIVE FixPrimaryFrom(_, _)

\* One turn of the loop of fix_primary_attributes: every way the random
\* index may fall (filling.py 245-255).
FixPrimaryField(obj, field_name, attr_value, i) ==
  IF ~Truthy(attr_value) \/ ~IsList(attr_value) THEN FixPrimaryFrom(obj, i + 1)
  ELSE IF ~HasAttr(attr_value.items[1], "primary") THEN FixPrimaryFrom(obj, i + 1)
  ELSE UNION { FixPrimaryFrom(
                 SetAttr(obj, field_name,
                         ListV(WithPrimary(attr_value.items, primary_index))),
                 i + 1)
               : primary_index \in 1..Len(attr_value.items) }

FixPrimaryFrom(obj, i) ==
  IF i > Len(Fields(obj.model)) THEN {obj}
  ELSE FixPrimaryField(obj, Fields(obj.model)[i].name,
                       GetAttr(obj, Fields(obj.model)[i].name), i)

\* fix_primary_attributes: exactly one primary item in each list of the
\* object's own fields.
fix_primary_attributes(obj) == FixPrimaryFrom(obj, 1)

\* get_model_from_ref_type: the kind to create for a reference, other than
\* different_than when there is a choice.
get_model_from_ref_type(ref_type, different_than) ==
  IF SelectSeq(ref_type, LAMBDA model : model # different_than) = <<>>
    THEN ref_type[1]
  ELSE SelectSeq(ref_type, LAMBDA model : model # different_than)[1]

\* The declared examples of a resolved field.
ExamplesOfTarget(target_info) ==
  IF target_info.status # "ok" \/ target_info.field = NoField THEN <<>>
  ELSE FieldInfo(target_info.model, target_info.field).examples

\* get_random_example_value: the examples random.choice may return, none
\* when the path does not resolve or the field declares none.
get_random_example_value(model, urn) ==
  ExamplesOfTarget(get_target_model_by_urn(model, urn))

\* The default of fill_with_random_values's mutability (filling.py 182-186).
DefaultMutability == Only({RW, WO, IMM})

\* urns = None
NoUrns == [none |-> TRUE, list |-> <<>>]

RECURSIVE generate_random_value(_, _, _, _, _, _)
RECURSIVE fill_with_random_values(_, _, _, _, _, _)
RECURSIVE FillLoop(_, _, _, _, _, _, _)
RECURSIVE create_and_register(_, _, _, _)

\* value = ref_obj.meta.location if ref_obj.meta else None (filling.py 136)
LocationOf(ref_obj) ==
  IF Truthy(GetAttr(ref_obj, "meta"))
    THEN GetAttr(GetAttr(ref_obj, "meta"), "location")
  ELSE NoneV

\* The value of a reference from the outcomes of the nested
\* create_and_register (filling.py 135-136).
RefValues(outs) ==
  { IF o.exc # "" THEN o ELSE [o EXCEPT !.v = LocationOf(o.v)] : o \in outs }

\* is_email (filling.py 95-98), is_phone (filling.py 99-102); the kinds
\* named are those whose lowered class name holds "email", "phone".
IsEmail(urn, model, field_name) ==
  urn # <<>> /\ (EndsWith(urn, <<"emails", ".", "value">>)
                 \/ (field_name = "value" /\ model \in {"Email"}))
IsPhone(urn, model, field_name) ==
  urn # <<>> /\ (EndsWith(urn, <<"phoneNumbers", ".", "value">>)
                 \/ (field_name = "value" /\ model \in {"PhoneNumber"}))

\* The branches of generate_random_value below the examples
\* (filling.py 113-158).
GenerateTyped(w, urn, model, mutability, required, d, field_name, field_type) ==
  IF field_type.kind = "raise" THEN Raise(w, "AttributeError")
  ELSE IF IsEmail(urn, model, field_name)
    THEN Leaf(w, StrV(<<"uuid", "@", "uuid", ".com">>))
  ELSE IF IsPhone(urn, model, field_name) THEN Leaf(w, StrV(<<"0123456789">>))
  ELSE IF field_type.kind = "int" THEN Leaf(w, [t |-> "int", n |-> 1])
  ELSE IF field_type.kind = "bool"
    THEN Leaf(w, BoolV(TRUE)) \cup Leaf(w, BoolV(FALSE))
  ELSE IF field_type.kind = "ref" /\ field_type.targets # <<>>
    THEN IF field_type.targets \notin {<<"external">>, <<"uri">>}
           THEN RefValues(create_and_register(
                  w, get_model_from_ref_type(field_type.targets, model),
                  FALSE, d + 1))
         ELSE Leaf(w, StrV(<<"https:", "/", "/", "uuid", ".test">>))
  ELSE IF field_type.kind \in {"complex", "ext"}
    THEN fill_with_random_values(w, EmptyObj(field_type.sub), NoUrns,
                                 mutability, required, d)
  ELSE Leaf(w, StrV(<<"uuid">>))

\* The example branch (filling.py 106-107): a truthy example is the value,
\* another one leaves the choice to the branches below.
WithExamples(w, examples, rest) ==
  IF examples = <<>> THEN rest
  ELSE UNION { IF Truthy(examples[k]) THEN Leaf(w, examples[k]) ELSE rest
               : k \in 1..Len(examples) }

\* if is_multiple: value = [value]; return fix_reference_values_in_value(value)
\* (filling.py 160-163)
Wrapped(outs, is_multiple) ==
  { IF o.exc # "" THEN o
    ELSE [o EXCEPT !.v = fix_reference_values_in_value(
                           IF is_multiple THEN ListV(<<o.v>>) ELSE o.v)]
    : o \in outs }

\* A faulty filter check: every annotation passes.
FilterVerdictPass(filter, annotation) ==
  IF annotation = "raise" THEN "raise" ELSE "pass"

\* What a filter says of an annotation (filling.py 81-89).
FilterVerdict(filter, annotation) ==
  IF filter.none THEN "pass"
  ELSE IF annotation = "raise" THEN "raise"
  ELSE IF annotation \notin filter.vals THEN "none"
  ELSE "pass"

\* generate_random_value once the filters have spoken.
GenerateChecked(w, urn, model, mutability, required, d, by_mutability, by_required) ==
  IF by_mutability = "raise" THEN Raise(w, "AttributeError")
  ELSE IF by_mutability = "none" THEN Leaf(w, NoneV)
  ELSE IF by_required = "raise" THEN Raise(w, "AttributeError")
  ELSE IF by_required = "none" THEN Leaf(w, NoneV)
  ELSE Wrapped(
         WithExamples(w, get_random_example_value(model, urn),
           GenerateTyped(w, urn, model, mutability, required, d,
                         find_field_name(model, urn),
                         get_attribute_type_by_urn(model, urn))),
         get_multiplicity_by_urn(model, urn))

\* generate_random_value: the no-value signal when a filter excludes the
\* attribute, else a value of the attribute's type.
generate_random_value(w, urn, model, mutability, required, d) ==
  GenerateChecked(w, urn, model, mutability, required, d,
    FilterVerdict(mutability, get_annotation_by_urn("Mutability", urn, model)),
    FilterVerdict(required, get_annotation_by_urn("Required", urn, model)))

\* The object once the value is set (filling.py 202).
FillSet(w, r, urns, i, mutability, required, d) ==
  IF r.exc # "" THEN Raise(w, r.exc)
  ELSE FillLoop(w, r.obj, urns, i + 1, mutability, required, d)

\* One turn of the loop of fill_with_random_values, for one outcome o of
\* generate_random_value (filling.py 198-202).
FillStep(o, obj, urns, i, mutability, required, d) ==
  IF o.exc # "" THEN {o}
  ELSE IF IsNone(o.v) THEN FillLoop(o.w, obj, urns, i + 1, mutability, required, d)
  ELSE FillSet(o.w, set_value_by_urn(obj, urns[i], o.v), urns, i,
               mutability, required, d)

\* The loop of fill_with_random_values over the URNs, then the primary pass
\* (filling.py 197-206).
FillLoop(w, obj, urns, i, mutability, required, d) ==
  IF i > Len(urns)
    THEN {[w |-> w, v |-> fixed, exc |-> ""] : fixed \in fix_primary_attributes(obj)}
  ELSE UNION { FillStep(o, obj, urns, i, mutability, required, d)
               : o \in generate_random_value(w, urns[i], obj.model, mutability,
                                             required, d) }

\* mutability = mutability or [read_write, write_only, immutable]
EffectiveMutability(mutability) ==
  IF mutability.none \/ mutability.vals = {} THEN DefaultMutability
  ELSE mutability

\* fill_with_random_values with the mutability in force (filling.py 187-206).
FillWith(w, obj, urns, mutability, required, d) ==
  FillLoop(w, obj,
           IF urns.none THEN iter_all_urns(obj.model, required, mutability, TRUE)
           ELSE urns.list,
           1, mutability, required, d)

\* fill_with_random_values: the object with every listed (by default every
\* eligible) attribute given a value.
fill_with_random_values(w, obj, urns, mutability, required, d) ==
  FillWith(w, obj, urns, EffectiveMutability(mutability), required, d)

\* ------------------------------------------------------------ utils.py

\* A faulty registration: the newest resource goes to the front.
RegisterFirst(w, created) ==
  [w |-> World(<<created>> \o w.resources, w.calls, w.nextId),
   v |-> created, exc |-> ""]


\* self.resources.append(created); return created (utils.py 254-256)
Register(w, created) ==
  [w |-> World(Append(w.resources, created), w.calls, w.nextId),
   v |-> created, exc |-> ""]

\* A faulty check of the answer: whatever came back is registered.
RegisteredAnyway(c) == IF c.exc # "" THEN c ELSE Register(c.w, c.v)

\* What create_and_register does with the answer of client.create
\* (utils.py 253-259).
Registered(c) ==
  IF c.exc # "" THEN c
  ELSE IF IsObj(c.v) THEN Register(c.w, c.v)
  ELSE [w |-> c.w, v |-> NoneV, exc |-> "ValueError"]

\* A faulty registration: of the local object, not of the server's.
CreateAndAppendLocal(w, obj) ==
  { IF c.exc = "" /\ IsObj(c.v) THEN Register(c.w, obj) ELSE Registered(c)
    : c \in ClientCreate(w, obj) }

\* created = self.context.client.create(obj), then the above
\* (utils.py 251-259).
CreateAndAppend(w, obj) == { Registered(c) : c \in ClientCreate(w, obj) }

\* A faulty create_and_register: the new object goes out as it is.
Unfilled(w, model, fill_all, d) == Leaf(w, EmptyObj(model))

\* The object create_and_register fills (utils.py 237-250).
FilledFor(w, model, fill_all, d) ==
  IF fill_all
    THEN fill_with_random_values(w, EmptyObj(model), NoUrns,
                                 Only({RW, WO, IMM}), NoFilter, d)
  ELSE fill_with_random_values(w, EmptyObj(model), NoUrns,
                               NoFilter, Only({ReqTrue}), d)

\* ResourceManager.create_and_register, at nesting depth d.
create_and_register(w, model, fill_all, d) ==
  IF d > MaxDepth THEN Raise(w, "RecursionError")
  ELSE UNION { IF o.exc # "" THEN {o} ELSE CreateAndAppend(o.w, o.v)
               : o \in FilledFor(w, model, fill_all, d) }

\* A faulty handler: the exception of the delete goes on.
NotSwallowed(o) == o

\* except Exception: pass (utils.py 267-269)
ExceptPass(o) == [o EXCEPT !.exc = ""]

\* The body of the try in cleanup, for one resource (utils.py 265-266).
DeleteResource(w, resource) ==
  IF ~IsNone(GetAttr(resource, "id"))
    THEN ClientDelete(w, resource.model, GetAttr(resource, "id"))
  ELSE Leaf(w, NoneV)

RECURSIVE CleanupLoop(_, _, _)
CleanupLoop(w, rs, i) ==
  IF i > Len(rs) THEN Leaf(w, NoneV)
  ELSE UNION { IF o.exc # "" THEN {o} ELSE CleanupLoop(o.w, rs, i + 1)
               : o \in { ExceptPass(t) : t \in DeleteResource(w, rs[i]) } }

\* A faulty cleanup: one that empties the registry when it is done.
cleanup_clearing(w) ==
  { [o EXCEPT !.w.resources = <<>>]
    : o \in CleanupLoop(w, Reversed(w.resources), 1) }

\* ResourceManager.cleanup
cleanup(w) == CleanupLoop(w, Reversed(w.resources), 1)

\* ------------------------------------------------------ state machine
\* resources is ResourceManager.resources; calls are the calls the client
\* received during the last operation; result is what the last operation
\* was, its input, what it returned or raised, the registry it started
\* from and the operation before it; nextId is the server's id counter.

\* The arguments of an operation.
Input(fn, model, obj, urns, urn, mutability, required) ==
  [fn |-> fn, model |-> model, obj |-> obj, urns |-> urns, urn |-> urn,
   mutability |-> mutability, required |-> required]

NoInput == Input("", "", NoneV, NoUrns, <<>>, NoFilter, NoFilter)

\* urns = [...]
Urns(list) == [none |-> FALSE, list |-> list]

Started(op, input) ==
  [op |-> op, input |-> input, v |-> NoneV, exc |-> "", before |-> <<>>,
   prev |-> ""]

\* A manager fresh from construction: resources = [] (utils.py 220-222).
Init ==
  /\ resources = <<>>
  /\ calls = <<>>
  /\ result = Started("init", NoInput)
  /\ nextId = 1

\* The world the next operation starts in.
Now == World(resources, <<>>, nextId)

Apply(op, input, o) ==
  /\ resources' = o.w.resources
  /\ calls' = o.w.calls
  /\ nextId' = o.w.nextId
  /\ result' = [op |-> op, input |-> input, v |-> o.v, exc |-> o.exc,
                before |-> resources, prev |-> result.op]

\* A check asks the manager for a resource with its required attributes.
CreateAndRegister ==
  /\ Len(resources) < MaxResources
  /\ \E model \in ResourceKinds :
       \E o \in create_and_register(Now, model, FALSE, 0) :
         Apply("create_and_register",
               Input("create_and_register", model, NoneV, NoUrns, <<>>,
                     NoFilter, NoFilter),
               o)

\* The end of a check: ResourceManager.cleanup().
Cleanup ==
  \E o \in cleanup(Now) : Apply("cleanup", NoInput, o)

Next == CreateAndRegister \/ Cleanup

Spec == Init /\ [][Next]_vars

\* ------------------------------------------- the synthesizer on its own
\* One call of the synthesizer, or of create_and_register(fill_all=True),
\* on a fresh manager, for each of a set of inputs.

\* The URN of a field of an extension.
ExtUrn(ext, attr) == SchemaOf(ext) \o <<":", attr>>

\* An item of a multi-valued attribute whose primary flag is not set.
Item(model, value) ==
  SetAttr(EmptyObj(model), "value", StrV(<<value>>))

\* A user with two addresses, none of them primary.
UserWithEmails ==
  SetAttr(EmptyObj("User"), "emails",
          ListV(<<Item("Email", "a"), Item("Email", "b")>>))

\* A device whose extension holds two contacts, none of them primary.
DeviceWithContacts ==
  SetAttr(EmptyObj("Device"), "DeviceExt",
          SetAttr(EmptyObj("DeviceExt"), "contacts",
                  ListV(<<Item("Contact", "a"), Item("Contact", "b")>>)))

\* A device as a server returns one: a serial number and hardware with its
\* revision, both read-only.
DeviceFromServer ==
  SetAttr(SetAttr(EmptyObj("Device"), "serial", StrV(<<"s">>)),
          "hardware",
          SetAttr(SetAttr(EmptyObj("Hardware"), "model", StrV(<<"m">>)),
                  "revision", StrV(<<"r">>)))

FillOf(obj, urns, mutability, required) ==
  Input("fill_with_random_values", obj.model, obj, urns, <<>>,
        mutability, required)

\* fill_with_random_values on a new object of each kind, with the filters
\* of its callers, on objects that already hold lists, on given URNs, and
\* on objects a server returned.
FillInputs ==
  { FillOf(EmptyObj(model), NoUrns, NoFilter, required)
    : model \in ResourceKinds, required \in {NoFilter, Only({ReqTrue})} }
  \cup { FillOf(obj, Urns(<<>>), NoFilter, NoFilter)
         : obj \in {UserWithEmails, DeviceWithContacts} }
  \cup { FillOf(EmptyObj("Device"), Urns(<<ExtUrn("DeviceExt", "contacts")>>),
                NoFilter, NoFilter),
         FillOf(EmptyObj("User"), Urns(<<<<"emails">>>>), NoFilter, NoFilter) }
  \cup { FillOf(UserWithEmails, NoUrns, NoFilter, Only({ReqTrue})),
         FillOf(UserWithEmails, NoUrns, Only({RW}), Only({ReqTrue})) }
  \cup { FillOf(DeviceFromServer,
                Urns(<< <<"serial">>, <<"hardware">>,
                        <<"hardware", ".", "model">>,
                        <<"hardware", ".", "revision">>,
                        <<"hardware", ".", "note">> >>),
                mutability, NoFilter)
         : mutability \in {NoFilter, Only({RW})} }

\* generate_random_value(context, urn, model) on every attribute path of
\* every kind, as the patch checkers call it.
GenerateInputs ==
  { Input("generate_random_value", model, NoneV, NoUrns, urn, NoFilter, NoFilter)
    : model \in ResourceKinds,
      urn \in UNION { Range(iter_all_urns(m, NoFilter, DefaultMutability, TRUE))
                      : m \in ResourceKinds } }
  \cup UNION { { Input("generate_random_value", model, NoneV, NoUrns, urn,
                       DefaultMutability, required)
                 : urn \in Range(iter_all_urns(model, NoFilter, NoFilter, TRUE)),
                   required \in {NoFilter, Only({ReqTrue})} }
               : model \in ResourceKinds }

InitFill ==
  /\ resources = <<>>
  /\ calls = <<>>
  /\ nextId = 1
  /\ result \in { Started("input", input)
                  : input \in FillInputs \cup GenerateInputs
                      \cup { Input("create_and_register", model, NoneV, NoUrns,
                                   <<>>, NoFilter, NoFilter)
                             : model \in ResourceKinds \cup CyclicKinds } }

\* Whether the operation fn is still to run on the input drawn.
Pending(fn) == result.op = "input" /\ result.input.fn = fn

FillWithRandomValues ==
  /\ Pending("fill_with_random_values")
  /\ \E o \in fill_with_random_values(Now, result.input.obj, result.input.urns,
                                      result.input.mutability,
                                      result.input.required, 0) :
       Apply("fill_with_random_values", result.input, o)

GenerateRandomValue ==
  /\ Pending("generate_random_value")
  /\ \E o \in generate_random_value(Now, result.input.urn, result.input.model,
                                    result.input.mutability,
                                    result.input.required, 0) :
       Apply("generate_random_value", result.input, o)

CreateAndRegisterAll ==
  /\ Pending("create_and_register")
  /\ \E o \in create_and_register(Now, result.input.model, TRUE, 0) :
       Apply("create_and_register_all", result.input, o)

NextFill == FillWithRandomValues \/ GenerateRandomValue \/ CreateAndRegisterAll

SpecFill == InitFill /\ [][NextFill]_vars

\* ------------------------------------------- the path functions on their own
\* get_target_model_by_urn, iter_all_urns, get_value_by_urn and
\* set_value_by_urn as the checkers and the synthesizer call them: on the
\* paths iter_all_urns yields and on paths that name nothing, on instances
\* fresh from the constructor and on instances a server returned.

UrnInput(fn, model, obj, urn, value, required, mutability, include_subattributes) ==
  [fn |-> fn, model |-> model, obj |-> obj, urns |-> NoUrns, urn |-> urn,
   mutability |-> mutability, required |-> required, value |-> value,
   include_subattributes |-> include_subattributes]

\* Every path iter_all_urns yields for a model.
AllUrns(model) == Range(iter_all_urns(model, NoFilter, NoFilter, TRUE))

\* Paths with a segment that names no field, a segment below a primitive
\* attribute, and a URN of no registered schema.
BadPaths ==
  { <<"nonExistent">>,
    <<"name", ".", "nonExistent">>,
    <<"hardware", ".", "nonExistent">>,
    <<"nonExistent", ".", "x">>,
    <<"name", ".", "invalid", ".", "nested">>,
    <<"userName", ".", "x">>,
    <<"emails", ".", "nonExistent">>,
    <<"urn", ":", "bad", ":", "User", ":", "x">>,
    ExtUrn("EnterpriseUser", "nonExistent"),
    ExtUrn("EnterpriseUser", "manager") \o <<".", "nonExistent">>,
    ExtUrn("DeviceExt", "contacts") \o <<".", "value">> \o <<".", "x">> }

\* A user as a server returns one: a user name, a name, and the enterprise
\* extension with an employee number and no manager.
UserFromServer ==
  SetAttr(SetAttr(SetAttr(EmptyObj("User"), "user_name", StrV(<<"u">>)),
                  "name",
                  SetAttr(EmptyObj("Name"), "family_name", StrV(<<"f">>))),
          "EnterpriseUser",
          SetAttr(EmptyObj("EnterpriseUser"), "employee_number", StrV(<<"7">>)))

\* The instances read and written: new ones, a user whose list of
\* addresses is set and empty, instances that hold values.
Instances ==
  { EmptyObj("User"), UserWithEmails,
    SetAttr(EmptyObj("User"), "emails", ListV(<<>>)), UserFromServer,
    EmptyObj("Device"), DeviceWithContacts }

\* The calls drawn: get_target_model_by_urn on resource, extension and
\* complex models; iter_all_urns under each combination of filters;
\* get_value_by_urn and set_value_by_urn on each instance.
UrnInputs ==
  { UrnInput("get_target_model_by_urn", model, NoneV, urn, NoneV,
             NoFilter, NoFilter, TRUE)
    : model \in ResourceKinds \cup {"EnterpriseUser", "Name"},
      urn \in BadPaths \cup UNION { AllUrns(m) : m \in ResourceKinds } }
  \cup
  { UrnInput("iter_all_urns", model, NoneV, <<>>, NoneV,
             required, mutability, include_subattributes)
    : model \in ResourceKinds \cup {"EnterpriseUser", "DeviceExt"},
      required \in {NoFilter, Only({ReqTrue}), Only({ReqFalse})},
      mutability \in {NoFilter, DefaultMutability, Only({RO})},
      include_subattributes \in BOOLEAN }
  \cup
  { UrnInput(fn, obj.model, obj, urn,
             IF fn = "set_value_by_urn" THEN StrV(<<"v">>) ELSE NoneV,
             NoFilter, NoFilter, TRUE)
    : fn \in {"get_value_by_urn", "set_value_by_urn"}, obj \in Instances,
      urn \in BadPaths \cup AllUrns("User") \cup AllUrns("Device") }

InitUrn ==
  /\ resources = <<>>
  /\ calls = <<>>
  /\ nextId = 1
  /\ result \in { Started("input", input) : input \in UrnInputs }

\* The call returned v or raised exc; the path functions touch neither the
\* registry nor the server.
Answer(op, v, exc) ==
  /\ result' = [op |-> op, input |-> result.input, v |-> v, exc |-> exc,
                before |-> <<>>, prev |-> result.op]
  /\ UNCHANGED <<resources, calls, nextId>>

GetTargetModelByUrn ==
  /\ Pending("get_target_model_by_urn")
  /\ Answer("get_target_model_by_urn",
            get_target_model_by_urn(result.input.model, result.input.urn),
            IF get_target_model_by_urn(result.input.model,
                                       result.input.urn).status = "raise"
              THEN "AttributeError" ELSE "")

\* list(iter_all_urns(...)); a second call on the same arguments may follow.
IterAllUrns ==
  /\ Pending("iter_all_urns") \/ result.op = "iter_all_urns"
  /\ Answer("iter_all_urns",
            iter_all_urns(result.input.model, result.input.required,
                          result.input.mutability,
                          result.input.include_subattributes),
            "")

SetValueByUrn ==
  /\ Pending("set_value_by_urn")
  /\ Answer("set_value_by_urn",
            set_value_by_urn(result.input.obj, result.input.urn,
                             result.input.value).obj,
            set_value_by_urn(result.input.obj, result.input.urn,
                             result.input.value).exc)

\* get_value_by_urn on the instance drawn, or on the instance a set that
\* returned has just written, at the same path.
GetValueByUrn ==
  \/ /\ Pending("get_value_by_urn")
     /\ Answer("get_value_by_urn",
               get_value_by_urn(result.input.obj, result.input.urn).v,
               get_value_by_urn(result.input.obj, result.input.urn).exc)
  \/ /\ result.op = "set_value_by_urn" /\ result.exc = ""
     /\ Answer("get_value_by_urn",
               get_value_by_urn(result.v, result.input.urn).v,
               get_value_by_urn(result.v, result.input.urn).exc)

SpecUrn ==
  InitUrn
  /\ [][GetTargetModelByUrn \/ IterAllUrns \/ SetValueByUrn \/ GetValueByUrn]_vars

\* ------------------------------------------------- the checker decorator
\* A check is a function decorated with @checker(*tags); calling it runs
\* wrapped (utils.py 288-343) on the context: the configuration, the
\* client and the registry of its ResourceManager.

\* CheckResult(status=..., reason=...) with the title and the tags wrapped
\* gives it.
CheckResult(status, reason, func_tags) ==
  [status |-> status, reason |-> reason, title |-> "check", tags |-> func_tags]

\* A faulty matching: a filter tag only matches the tag it is equal to.
matches_equal_tags(func_tags, filter_tags) ==
  \/ <<"*">> \in func_tags
  \/ \E filter_tag \in filter_tags : filter_tag \in func_tags

\* _matches_hierarchical_tags
matches_hierarchical_tags(func_tags, filter_tags) ==
  \/ <<"*">> \in func_tags
  \/ \E filter_tag \in filter_tags : \E func_tag \in func_tags :
       \/ filter_tag = func_tag
       \/ Contains(func_tag, ":") /\ filter_tag \in Range(Split(func_tag, ":"))

\* check_result(context, status, reason=...): with raise_exceptions an
\* ERROR or CRITICAL status raises SCIMTesterError, whose message is the
\* reason, where the check fails.
check_result(w, raise_exceptions, status, reason, func_tags) ==
  IF raise_exceptions /\ status \in {"ERROR", "CRITICAL"} THEN Raise(w, reason)
  ELSE Leaf(w, ListV(<<CheckResult(status, reason, func_tags)>>))

\* The functions decorated: one that reports a success ("returns"), one
\* that creates a user first ("creates"), one that creates a device, and so
\* the user who owns it ("depends"), one that raises ("raises"), one that
\* builds a CheckResult with status ERROR itself ("returns_error"), one that
\* reports an error through check_result ("fails").
\* A faulty check: it has the registry cleaned up while it is still running,
\* between two resources it creates.
BodyEager(w, raise_exceptions, func, func_tags) ==
  IF func \in {"creates", "depends"}
    THEN UNION { IF o.exc # "" THEN {o}
                 ELSE UNION { { [n EXCEPT !.v = ListV(<<CheckResult("SUCCESS", "", func_tags)>>)]
                                : n \in create_and_register(c.w, "User", FALSE, 0) }
                              : c \in cleanup(o.w) }
                 : o \in create_and_register(w, "User", FALSE, 0) }
  ELSE Leaf(w, ListV(<<CheckResult("SUCCESS", "", func_tags)>>))

\* func(context): what it returns or raises, and the world it leaves.
Body(w, raise_exceptions, func, func_tags) ==
  CASE func = "raises" -> Raise(w, "Test error")
    [] func \in {"creates", "depends"} ->
         { IF o.exc # "" THEN o
           ELSE [o EXCEPT !.v = ListV(<<CheckResult("SUCCESS", "", func_tags)>>)]
           : o \in create_and_register(
                     w, IF func = "creates" THEN "User" ELSE "Device", FALSE, 0) }
    [] func = "returns_error" ->
         Leaf(w, ListV(<<CheckResult("ERROR", "Check failed", func_tags)>>))
    [] func = "fails" ->
         check_result(w, raise_exceptions, "ERROR", "No Schema", func_tags)
    [] OTHER -> Leaf(w, ListV(<<CheckResult("SUCCESS", "", func_tags)>>))

\* A faulty try statement: cleanup runs only when the body returned.
FinallyOnReturn(o, raise_exceptions, func_tags) ==
  IF o.exc = ""
    THEN { [w |-> c.w, v |-> o.v, exc |-> c.exc, ran |-> TRUE] : c \in cleanup(o.w) }
  ELSE { [w |-> o.w,
          v |-> IF raise_exceptions THEN NoneV
                ELSE ListV(<<CheckResult("ERROR", o.exc, func_tags)>>),
          exc |-> IF raise_exceptions THEN o.exc ELSE "",
          ran |-> TRUE] }


\* A faulty try statement: the except clauses raise whatever
\* raise_exceptions is.
FinallyReraise(o, raise_exceptions, func_tags) ==
  { [w |-> c.w, v |-> IF o.exc # "" THEN NoneV ELSE o.v, exc |-> o.exc,
     ran |-> TRUE]
    : c \in cleanup(o.w) }


\* The try statement of wrapped for one outcome o of the body
\* (utils.py 317-343): the except clauses, then cleanup in the finally
\* clause, then the return.
Finally(o, raise_exceptions, func_tags) ==
  { [w |-> c.w,
     v |-> IF c.exc # "" \/ (o.exc # "" /\ raise_exceptions) THEN NoneV
           ELSE IF o.exc # "" THEN ListV(<<CheckResult("ERROR", o.exc, func_tags)>>)
           ELSE o.v,
     exc |-> IF c.exc # "" THEN c.exc
             ELSE IF o.exc # "" /\ raise_exceptions THEN o.exc
             ELSE "",
     ran |-> TRUE]
    : c \in cleanup(o.w) }

\* return [CheckResult(status=Status.SKIPPED, ...)] (utils.py 294-302, 307-315)
Skip(w, reason, func_tags) ==
  {[w |-> w, v |-> ListV(<<CheckResult("SKIPPED", reason, func_tags)>>), exc |-> "",
    ran |-> FALSE]}

\* wrapped(context): the decorated check.
wrapped(w, conf, func_tags, func) ==
  IF conf.include_tags # {}
     /\ ~matches_hierarchical_tags(func_tags, conf.include_tags)
    THEN Skip(w, "Skipped due to tag filtering", func_tags)
  ELSE IF conf.exclude_tags # {}
          /\ matches_hierarchical_tags(func_tags, conf.exclude_tags)
    THEN Skip(w, "Skipped due to tag exclusion", func_tags)
  ELSE UNION { Finally(o, conf.raise_exceptions, func_tags)
               : o \in Body(w, conf.raise_exceptions, func, func_tags) }

\* The tags of the checks, and those of include_tags and exclude_tags.
TagSets ==
  [func |-> { {}, {<<"crud", ":", "read">>},
              {<<"crud", ":", "write">>, <<"misc">>},
              {<<"*">>, <<"discovery">>} },
   filter |-> { {}, {<<"crud">>}, {<<"crud", ":", "read">>, <<"schemas">>} }]

\* CheckContext(client, conf): a configuration, and a manager fresh from
\* construction.
InitCheck ==
  /\ resources = <<>>
  /\ calls = <<>>
  /\ nextId = 1
  /\ result \in { Started("init", [conf |-> [include_tags |-> include_tags,
                                             exclude_tags |-> exclude_tags,
                                             raise_exceptions |-> raise_exceptions]])
                  : include_tags \in TagSets.filter,
                    exclude_tags \in TagSets.filter,
                    raise_exceptions \in BOOLEAN }

\* A decorated check is called on the context.
Check ==
  \E func_tags \in TagSets.func :
  \E func \in IF func_tags = {<<"crud", ":", "read">>}
               THEN {"returns", "creates", "depends", "raises", "returns_error",
                     "fails"}
             ELSE {"returns", "creates"} :
    /\ func = "creates" => Len(resources) < MaxResources
    /\ func = "depends" => resources = <<>>
    /\ \E o \in wrapped(Now, result.input.conf, func_tags, func) :
         /\ resources' = o.w.resources
         /\ calls' = o.w.calls
         /\ nextId' = o.w.nextId
         /\ result' = [op |-> "check",
                       input |-> [conf |-> result.input.conf,
                                  tags |-> func_tags, func |-> func],
                       v |-> o.v, exc |-> o.exc, before |-> resources,
                       prev |-> result.op, ran |-> o.ran]

SpecCheck == InitCheck /\ [][Check]_vars

\* ------------------------------------------------------------- cleanup

\* A sequence back to front.
Backwards(s) == [i \in 1..Len(s) |-> s[Len(s) + 1 - i]]

\* Whether a registered resource has an identifier.
HasId(resource) == ~IsNone(GetAttr(resource, "id"))

\* The deletes owed to a registry: one per resource with an identifier,
\* the newest resource first.
DeletesOwed(rs) ==
  [i \in 1..Len(SelectSeq(Backwards(rs), HasId)) |->
     <<"delete", SelectSeq(Backwards(rs), HasId)[i].model,
       GetAttr(SelectSeq(Backwards(rs), HasId)[i], "id")>>]

\* What the client was asked, call by call.
Requests(cs) == [i \in 1..Len(cs) |-> <<cs[i].op, cs[i].model, cs[i].arg>>]

\* Whether a call ended in an exception.
Failed(call) == call.resp.t = "exc"

\* C1: cleanup() issues its delete requests in exactly the reverse of the
\* order of the registry, one request per registered resource whose id is
\* not null and none for the others.
C1_ReverseOrderDeletes ==
  result.op = "cleanup" => Requests(calls) = DeletesOwed(result.before)

\* A cleanup of a registry of at least three resources, one of them without
\* an id, that deleted two different resources.
C1_Witness ==
  /\ result.op = "cleanup"
  /\ Len(calls) >= 2
  /\ Len(calls) < Len(result.before)
  /\ calls[1].arg # calls[2].arg

\* C2: cleanup() never raises: a delete that fails is swallowed, and every
\* registered resource with an id still gets its delete attempt, the ones
\* after a failed delete included.
C2_CleanupNeverRaises ==
  result.op = "cleanup" =>
    /\ result.exc = ""
    /\ \A i \in 1..Len(result.before) :
         HasId(result.before[i]) =>
           \E k \in 1..Len(calls) :
             /\ calls[k].op = "delete"
             /\ calls[k].model = result.before[i].model
             /\ calls[k].arg = GetAttr(result.before[i], "id")

\* A cleanup whose first delete failed and that went on to a second one.
C2_Witness ==
  /\ result.op = "cleanup"
  /\ Len(calls) >= 2
  /\ Failed(calls[1])
  /\ result.exc = ""

\* C3, as stated: a cleanup() right after a cleanup() does not raise and
\* performs no deletion at all.
C3_SecondCleanupDeletesNothing ==
  (result.op = "cleanup" /\ result.prev = "cleanup") =>
    (result.exc = "" /\ calls = <<>>)

\* C3, amended: a cleanup() right after a cleanup() does not raise, leaves
\* the registry as it is, and asks for the same deletes in the same order
\* as the first one did: the registry is never emptied.
C3_SecondCleanupRepeats ==
  [][(result.op = "cleanup" /\ result'.op = "cleanup") =>
       /\ result'.exc = ""
       /\ resources' = resources
       /\ Requests(calls') = Requests(calls)]_vars

\* A second cleanup in a row that asked for a delete again.
C3_Witness ==
  /\ result.op = "cleanup"
  /\ result.prev = "cleanup"
  /\ Len(calls) >= 1

\* ------------------------------------------------- create_and_register

\* Whether the last operation was create_and_register(model), minimal.
Created == result.op = "create_and_register"

\* Whether a kind has a required attribute that is a reference, at the top
\* or in a required complex attribute.
RequiresReference(model) ==
  \E i \in 1..Len(Fields(model)) :
    /\ Fields(model)[i].req = ReqTrue
    /\ \/ Fields(model)[i].type = "ref"
       \/ /\ Fields(model)[i].type = "complex"
          /\ \E j \in 1..Len(Fields(Fields(model)[i].sub)) :
               /\ Fields(Fields(model)[i].sub)[j].req = ReqTrue
               /\ Fields(Fields(model)[i].sub)[j].type = "ref"

\* The answers of the calls before the last one.
EarlierAnswers(cs) == [k \in 1..(Len(cs) - 1) |-> cs[k].resp]

\* C4: create_and_register(model), for a kind without a required
\* reference, makes exactly one create call; when it succeeds the registry
\* is the one before plus exactly the instance the server returned, and
\* that instance is what the call returns.
C4_RegistersServerInstance ==
  (Created /\ ~RequiresReference(result.input.model)) =>
    /\ Len(calls) = 1
    /\ calls[1].op = "create"
    /\ calls[1].model = result.input.model
    /\ result.exc = "" =>
         /\ resources = Append(result.before, calls[1].resp)
         /\ result.v = calls[1].resp

\* A successful create_and_register on a registry that is not empty, where
\* the server's instance is not the object that was sent.
C4_Witness ==
  /\ Created
  /\ ~RequiresReference(result.input.model)
  /\ result.exc = ""
  /\ Len(result.before) >= 1
  /\ calls[1].resp # calls[1].arg
  /\ resources[Len(resources)] = calls[1].resp

\* Whether the last create call was answered with something that is no
\* resource.
AnsweredNoResource ==
  /\ Created
  /\ Len(calls) >= 1
  /\ calls[Len(calls)].op = "create"
  /\ calls[Len(calls)].resp = DictV

\* C5, as stated: when create returns something that is no resource,
\* create_and_register fails and the registry is as it was before the call.
C5_FailedCreateLeavesRegistry ==
  AnsweredNoResource => (result.exc # "" /\ resources = result.before)

\* C5, amended: when create returns something that is no resource,
\* create_and_register fails with a ValueError and appends nothing for
\* that object; the registry is the one before the call plus the
\* dependencies the nested calls had registered by then, and so it is
\* unchanged when the object needed no dependency.
C5_FailedCreateAppendsNoObject ==
  AnsweredNoResource =>
    /\ result.exc = "ValueError"
    /\ resources = result.before \o EarlierAnswers(calls)
    /\ \A k \in 1..(Len(calls) - 1) : IsObj(calls[k].resp)

\* A create_and_register of a device whose owner was created and
\* registered before the device's own create was answered with no resource.
C5_Witness ==
  /\ AnsweredNoResource
  /\ Len(calls) = 2
  /\ calls[2].model = "Device"
  /\ Len(resources) = Len(result.before) + 1
  /\ resources[Len(resources)].model = "User"

\* Whether the required attributes among the given fields of an object
\* are set, down into the complex values that are set; read-only ones
\* count when with_read_only.
RECURSIVE RequiredSet(_, _)
RequiredSet(obj, with_read_only) ==
  \A i \in 1..Len(Fields(obj.model)) :
    (/\ Fields(obj.model)[i].req = ReqTrue
     /\ with_read_only \/ Fields(obj.model)[i].mut # RO) =>
      /\ ~IsNone(GetAttr(obj, Fields(obj.model)[i].name))
      /\ IsObj(GetAttr(obj, Fields(obj.model)[i].name)) =>
           RequiredSet(GetAttr(obj, Fields(obj.model)[i].name), with_read_only)

\* Whether a created resource came back with a location.
HasLocation(v) == IsObj(v) /\ Truthy(LocationOf(v))

FilledOk == result.op = "fill_with_random_values" /\ result.exc = ""

\* The items of a list that are primary.
Primaries(items) ==
  {i \in 1..Len(items) : GetAttr(items[i], "primary") = BoolV(TRUE)}

\* Whether a value is a non-empty list of items with a primary flag.
HasPrimaryItems(v) ==
  IsList(v) /\ Len(v.items) > 0 /\ HasAttr(v.items[1], "primary")

\* Whether every such list among the fields of an object, and of its
\* extension sub-objects, has exactly one primary item.
RECURSIVE OnePrimaryEach(_)
OnePrimaryEach(obj) ==
  \A name \in FieldNames(obj.model) :
    /\ HasPrimaryItems(GetAttr(obj, name)) =>
         Cardinality(Primaries(GetAttr(obj, name).items)) = 1
    /\ (IsObj(GetAttr(obj, name)) /\ IsExtension(GetAttr(obj, name).model)) =>
         OnePrimaryEach(GetAttr(obj, name))

\* C7: after fill_with_random_values, every non-empty multi-valued
\* collection whose items carry a primary flag has exactly one primary
\* item, the collections inside extension sub-objects included.
C7_ExactlyOnePrimary ==
  FilledOk => OnePrimaryEach(result.v)

\* What follows the last "/" of a location.
TailOf(location) ==
  SubSeq(location,
         1 + (CHOOSE i \in 0..Len(location) :
                /\ i = 0 \/ location[i] = "/"
                /\ \A j \in (i + 1)..Len(location) : location[j] # "/"),
         Len(location))

\* Whether a value that has a ref and a value names, in value, the tail of
\* its ref.
RefAgrees(v) ==
  (HasAttr(v, "ref") /\ HasAttr(v, "value") /\ Truthy(GetAttr(v, "ref"))) =>
    GetAttr(v, "value") = StrV(TailOf(GetAttr(v, "ref").s))

\* Whether that holds of every complex value of an object: single or in a
\* list, at the top or inside an extension.
RECURSIVE RefsAgree(_)
RefsAgree(obj) ==
  \A name \in FieldNames(obj.model) :
    /\ IsObj(GetAttr(obj, name)) =>
         (RefAgrees(GetAttr(obj, name)) /\ RefsAgree(GetAttr(obj, name)))
    /\ IsList(GetAttr(obj, name)) =>
         \A i \in 1..Len(GetAttr(obj, name).items) :
           RefAgrees(GetAttr(obj, name).items[i])

\* C8: after every attribute of a resource has been filled (all the
\* enumerated paths, those of sub-attributes and extensions included, in
\* order), every complex value with a ref has, as its value, the last
\* "/"-segment of that ref.
C8_ValueIsTailOfRef ==
  (FilledOk /\ result.input.urns.none /\ result.input.required.none) =>
    RefsAgree(result.v)

\* Whether the last operation was generate_random_value on the manager of
\* the enterprise extension of a user, with filters that admit the manager
\* (an excluded attribute is not synthesized: filling.py 81-89).
GeneratedManager ==
  /\ result.op = "generate_random_value"
  /\ result.input.model = "User"
  /\ result.input.urn = ExtUrn("EnterpriseUser", "manager")
  /\ FilterVerdict(result.input.mutability,
         get_annotation_by_urn("Mutability", result.input.urn, "User")) = "pass"
  /\ FilterVerdict(result.input.required,
         get_annotation_by_urn("Required", result.input.urn, "User")) = "pass"

\* C9: synthesizing the enterprise extension's manager makes exactly one
\* nested create_and_register, of a user; when it succeeds that user is the
\* one resource registered, and where the user came back with a location
\* the manager's ref is that location and its value the last segment of it.
C9_ManagerFromOneCreate ==
  GeneratedManager =>
    /\ Len(calls) = 1
    /\ calls[1].op = "create"
    /\ calls[1].model = "User"
    /\ result.exc = "" =>
         /\ resources = Append(result.before, calls[1].resp)
         /\ HasLocation(calls[1].resp) =>
              /\ GetAttr(result.v, "ref") = LocationOf(calls[1].resp)
              /\ GetAttr(result.v, "value")
                   = StrV(TailOf(LocationOf(calls[1].resp).s))

\* A manager whose value is the id at the end of the location of the one
\* user created for it.
C9_Witness ==
  /\ GeneratedManager
  /\ result.exc = ""
  /\ HasLocation(calls[1].resp)
  /\ GetAttr(result.v, "value") = GetAttr(calls[1].resp, "id")
  /\ Truthy(GetAttr(result.v, "value"))

\* The target kinds of the reference a type holds: its own when it is a
\* reference, those of its ref sub-attribute when it is complex.
TargetsIn(field_type) ==
  IF field_type.kind = "ref" THEN field_type.targets
  ELSE IF field_type.kind = "complex" /\ "ref" \in FieldNames(field_type.sub)
    THEN FieldInfo(field_type.sub, "ref").targets
  ELSE <<>>

\* The target kinds of the reference the last generate_random_value was
\* about.
TargetsAsked ==
  TargetsIn(get_attribute_type_by_urn(result.input.model, result.input.urn))

\* Whether the last operation synthesized a reference with several target
\* kinds, at the top of a resource or inside a complex attribute of it.
GeneratedChoice ==
  /\ result.op = "generate_random_value"
  /\ result.exc = ""
  /\ Len(TargetsAsked) >= 2
  /\ Len(calls) >= 1

\* The kind of the dependency: the resource created last.
DependencyKind == calls[Len(calls)].model

\* C10: for a reference with several permitted target kinds the
\* dependency created is of a kind other than the owning resource's, also
\* when the reference sits inside a complex attribute; it is of the first
\* declared kind only when no other kind is acceptable.
C10_DependencyOfOtherKind ==
  GeneratedChoice =>
    /\ DependencyKind \in Range(TargetsAsked)
    /\ (\E t \in Range(TargetsAsked) : t # result.input.model) =>
         DependencyKind # result.input.model
    /\ (\A t \in Range(TargetsAsked) : t = result.input.model) =>
         DependencyKind = TargetsAsked[1]

\* ------------------------------------------------------- C11 .. C20

\* The model and the dotted parts the last path function worked on, once
\* the URN prefix is taken off.
AskedModel == TargetPrefix(result.input.model, result.input.urn).model
AskedParts == Split(TargetPrefix(result.input.model, result.input.urn).urn, ".")

\* Whether part i of the path asked names a field of model m.
Names(m, i) ==
  /\ i <= Len(AskedParts)
  /\ m \in ModelNames
  /\ \E n \in FieldNames(m) : NormalizeToken(n) = Normalize(AskedParts[i])

\* The field of m that part i names.
Named(m, i) ==
  CHOOSE n \in FieldNames(m) : NormalizeToken(n) = Normalize(AskedParts[i])

\* Whether the last operation resolved a path whose first segment, not its
\* last, names a multi-valued attribute.
ResolvedThroughMultiValued ==
  /\ result.op = "get_target_model_by_urn"
  /\ Len(AskedParts) >= 2
  /\ Names(AskedModel, 1)
  /\ FieldInfo(AskedModel, Named(AskedModel, 1)).multi

\* C11 as the specification states it: a path with an intermediate
\* multi-valued segment resolves to not-found.
C11_MultiValuedHopNotFound ==
  ResolvedThroughMultiValued => result.v.status = "none"

\* C11: get_target_model_by_urn does not look at multiplicity: a
\* two-segment path whose first segment names a multi-valued complex
\* attribute and whose second names a field of the element type resolves to
\* that element type and that field.
C11_MultiValuedHopResolves ==
  (/\ ResolvedThroughMultiValued
   /\ Len(AskedParts) = 2
   /\ FieldInfo(AskedModel, Named(AskedModel, 1)).type = "complex"
   /\ Names(FieldInfo(AskedModel, Named(AskedModel, 1)).sub, 2))
  => /\ result.exc = ""
     /\ result.v.status = "ok"
     /\ result.v.model = FieldInfo(AskedModel, Named(AskedModel, 1)).sub
     /\ result.v.field = Named(result.v.model, 2)

\* emails.value resolved on User to the field value of Email.
C11_Witness ==
  /\ ResolvedThroughMultiValued
  /\ result.input.model = "User"
  /\ result.input.urn = <<"emails", ".", "value">>
  /\ result.v = Target("Email", "value")


\* C12: get_target_model_by_urn never raises and returns either an owning
\* model with the name of one of its fields, or not-found.
C12_ResolvesFieldOrNotFound ==
  result.op = "get_target_model_by_urn" =>
    /\ result.exc = ""
    /\ \/ result.v.status = "none"
       \/ /\ result.v.status = "ok"
          /\ result.v.field \in FieldNames(result.v.model)


\* Whether the last operation read a path from an instance.
Read == result.op = "get_value_by_urn" /\ result.prev = "input"

\* The object the parts of the path asked lead to from obj, part by part
\* up to part i; None once a part names nothing or leads to None.
RECURSIVE Reached(_, _)
Reached(obj, i) ==
  IF i = 0 THEN obj
  ELSE IF ~IsObj(Reached(obj, i - 1)) THEN NoneV
  ELSE IF ~Names(Reached(obj, i - 1).model, i) THEN NoneV
  ELSE GetAttr(Reached(obj, i - 1), Named(Reached(obj, i - 1).model, i))

\* The instance the path asked starts from: the extension object for an
\* extension-qualified path, the instance itself otherwise.
Start(obj) ==
  IF AskedModel = obj.model THEN obj ELSE GetAttr(obj, AskedModel)

\* Whether some sub-object the path traverses is unset.
TraversesUnset(obj) ==
  \/ IsNone(Start(obj))
  \/ \E i \in 1..(Len(AskedParts) - 1) :
       /\ IsObj(Reached(Start(obj), i - 1))
       /\ Names(Reached(Start(obj), i - 1).model, i)
       /\ IsNone(Reached(Start(obj), i))

\* Whether the path navigates into a list that is set.
TraversesList(obj) ==
  \E i \in 1..(Len(AskedParts) - 1) : IsList(Reached(Start(obj), i))

\* C13: get_value_by_urn returns None, without raising, when a traversed
\* sub-object is unset and when the path would navigate into a populated
\* multi-valued collection.
C13_GetAbsentNeverRaises ==
  (Read /\ (TraversesUnset(result.input.obj) \/ TraversesList(result.input.obj)))
  => result.exc = "" /\ IsNone(result.v)


\* Whether the last operation wrote a value at a path of an instance.
Wrote == result.op = "set_value_by_urn"

\* Whether the final segment of the path asked names no field of the model
\* the segments before it lead to.
FinalNamesNothing ==
  \/ Len(AskedParts) = 1 /\ ~Names(AskedModel, 1)
  \/ /\ get_target_model_by_urn(result.input.model, result.input.urn).status = "ok"
     /\ get_target_model_by_urn(result.input.model, result.input.urn).field = NoField

\* C14: set_value_by_urn on a path whose final segment names no field does
\* not raise and leaves the instance as it was, intermediate sub-objects
\* included, for single-segment and for dotted paths.
C14_UnknownFieldIsNoOp ==
  (Wrote /\ FinalNamesNothing) =>
    result.exc = "" /\ result.v = result.input.obj


\* C15: set_value_by_urn on a path that would enter a multi-valued
\* collection that is set, empty or populated, returns without raising and
\* leaves the instance, the collection and its elements as they were.
C15_SetIntoListIsNoOp ==
  (Wrote /\ TraversesList(result.input.obj)) =>
    result.exc = "" /\ result.v = result.input.obj

\* A set at emails.value on a user with two addresses, which are still the
\* two addresses afterwards.
C15_Witness ==
  /\ Wrote
  /\ result.input.obj = UserWithEmails
  /\ result.input.urn = <<"emails", ".", "value">>
  /\ TraversesList(result.input.obj)
  /\ GetAttr(result.v, "emails") = ListV(<<Item("Email", "a"), Item("Email", "b")>>)


\* Whether the last operation read back the path a set has just written.
ReadBack ==
  /\ result.op = "get_value_by_urn"
  /\ result.prev = "set_value_by_urn"

\* Whether the path asked resolves on the model of the instance.
Resolves ==
  /\ get_target_model_by_urn(result.input.model, result.input.urn).status = "ok"
  /\ get_target_model_by_urn(result.input.model, result.input.urn).field # NoField

\* The models the segments of the path asked lead through, the owning
\* model of the last segment last.
RECURSIVE ModelAt(_)
ModelAt(i) ==
  IF i = 1 THEN AskedModel
  ELSE FieldInfo(ModelAt(i - 1), Named(ModelAt(i - 1), i - 1)).sub

\* Whether some segment of a path that resolves, the last one included,
\* names a multi-valued attribute.
NamesMultiValued ==
  \E i \in 1..Len(AskedParts) : FieldInfo(ModelAt(i), Named(ModelAt(i), i)).multi

\* C16 as the specification states it: whatever path resolves, a get after
\* a set returns the value set.
C16_RoundTrip ==
  (ReadBack /\ Resolves) => result.exc = "" /\ result.v = result.input.value

\* C16: for a path that resolves and none of whose segments names a
\* multi-valued attribute, a get after a set returns the value set, also
\* when the sub-objects or the extension object on the path were unset.
C16_RoundTripSingleValued ==
  (ReadBack /\ Resolves /\ ~NamesMultiValued) =>
    result.exc = "" /\ result.v = result.input.value

\* The manager's value read back from a user that had neither the
\* extension nor a manager before the set.
C16_Witness ==
  /\ ReadBack
  /\ result.input.obj = EmptyObj("User")
  /\ result.input.urn = ExtUrn("EnterpriseUser", "manager") \o <<".", "value">>
  /\ ~NamesMultiValued
  /\ result.v = result.input.value


\* Whether the last operation listed the paths of a model.
Listed == result.op = "iter_all_urns"

\* Whether the attribute a path denotes on the model asked carries
\* annotations the filters asked admit.
Admitted(urn) ==
  /\ result.input.required.none
       \/ get_annotation_by_urn("Required", urn, result.input.model)
            \in result.input.required.vals
  /\ result.input.mutability.none
       \/ get_annotation_by_urn("Mutability", urn, result.input.model)
            \in result.input.mutability.vals

\* C17: every path iter_all_urns yields, of a sub-attribute as of a
\* top-level attribute, denotes an attribute whose own required and
\* mutability annotations are among the filters given.
C17_YieldedPassFilters ==
  Listed => \A i \in 1..Len(result.v) : Admitted(result.v[i])


\* What the call asked yields once its required filter is left out.
Unfiltered ==
  iter_all_urns(result.input.model, NoFilter, result.input.mutability,
                result.input.include_subattributes)

\* The first segment of a path below its schema prefix.
FirstSegment(urn) == Split(TargetPrefix(result.input.model, urn).urn, ".")[1]

\* What one listing satisfies: it is part of the unfiltered listing, holds
\* no path twice and no path of id, meta or schemas.
ListingSound ==
  /\ Range(result.v) \subseteq Range(Unfiltered)
  /\ \A i, j \in 1..Len(result.v) : result.v[i] = result.v[j] => i = j
  /\ \A i \in 1..Len(result.v) :
       Normalize(FirstSegment(result.v[i])) \notin {"id", "meta", "schemas"}

MutabilityAsked ==
  IF result.op = "fill_with_random_values"
     /\ (result.input.mutability.none \/ result.input.mutability.vals = {})
    THEN {RW, WO, IMM}
  ELSE result.input.mutability.vals

\* Whether the filters asked exclude field f of model m.
Excluded(m, f) ==
  \/ ~(result.op = "generate_random_value" /\ result.input.mutability.none)
       /\ FieldInfo(m, f).mut \notin MutabilityAsked
  \/ ~result.input.required.none
       /\ FieldInfo(m, f).req \notin result.input.required.vals

\* Whether two values are the same once the primary flags of the items of
\* a list are left aside.
SameButPrimary(before, after) ==
  \/ after = before
  \/ /\ IsList(before) /\ IsList(after)
     /\ Len(after.items) = Len(before.items)
     /\ \A i \in 1..Len(after.items) :
          /\ IsObj(before.items[i]) /\ IsObj(after.items[i])
          /\ "primary" \in FieldNames(after.items[i].model)
          /\ after.items[i] = SetAttr(before.items[i], "primary",
                                      GetAttr(after.items[i], "primary"))

\* The single-valued complex fields of model m.
ComplexFields(m) ==
  {f \in FieldNames(m) : FieldInfo(m, f).type = "complex" /\ ~FieldInfo(m, f).multi}

\* Whether the last operation was a fill that returned.
Filled == result.op = "fill_with_random_values" /\ result.exc = ""

\* Whether the last operation asked a value for a path that resolves to an
\* attribute the filters exclude.
GenerateExcluded ==
  /\ result.op = "generate_random_value"
  /\ Resolves
  /\ Excluded(get_target_model_by_urn(result.input.model, result.input.urn).model,
              get_target_model_by_urn(result.input.model, result.input.urn).field)

\* generate_random_value gave the no-value signal and asked the server
\* nothing.
NoValue ==
  /\ result.exc = ""
  /\ IsNone(result.v)
  /\ calls = <<>>
  /\ resources = result.before

\* C19 as the specification states it: an excluded attribute gets no value
\* from generate_random_value, and a fill leaves every excluded attribute
\* and sub-attribute exactly as it was.
C19_ExcludedLeftAsItWas ==
  /\ GenerateExcluded => NoValue
  /\ Filled =>
       /\ \A f \in FieldNames(result.input.model) :
            Excluded(result.input.model, f)
              => GetAttr(result.v, f) = GetAttr(result.input.obj, f)
       /\ \A f \in ComplexFields(result.input.model) :
            (IsObj(GetAttr(result.input.obj, f)) /\ IsObj(GetAttr(result.v, f)))
              => \A g \in FieldNames(FieldInfo(result.input.model, f).sub) :
                   Excluded(FieldInfo(result.input.model, f).sub, g)
                     => GetAttr(GetAttr(result.v, f), g)
                          = GetAttr(GetAttr(result.input.obj, f), g)

\* Whether every excluded field of an object of model m is unset, or
\* holds what it held in the object before.
ExcludedUnsetOrKept(before, after, m) ==
  \A g \in FieldNames(m) :
    Excluded(m, g)
      => \/ IsNone(GetAttr(after, g))
         \/ IsObj(before) /\ GetAttr(after, g) = GetAttr(before, g)

\* The same of the excluded sub-attributes of the complex attributes of an
\* object of model m.
SubAttributesKept(before, after, m) ==
  \A f \in ComplexFields(m) :
    IsObj(GetAttr(after, f))
      => ExcludedUnsetOrKept(IF IsObj(before) THEN GetAttr(before, f) ELSE NoneV,
                             GetAttr(after, f), FieldInfo(m, f).sub)

\* C19: an excluded attribute gets no value from generate_random_value.
\* After a fill, an excluded top-level attribute that is no extension holds
\* what it held, the primary flags of the items of a list aside; an
\* excluded attribute of an extension or sub-attribute of a complex
\* attribute holds what it held or,
\* the extension or complex value having been replaced, nothing.  In
\* particular none holds a generated value.
C19_ExcludedGetsNoValue ==
  /\ GenerateExcluded => NoValue
  /\ Filled =>
       /\ \A f \in FieldNames(result.input.model) :
            (Excluded(result.input.model, f)
             /\ FieldInfo(result.input.model, f).type # "ext")
              => SameButPrimary(GetAttr(result.input.obj, f), GetAttr(result.v, f))
       /\ SubAttributesKept(result.input.obj, result.v, result.input.model)
       /\ \A e \in Range(ExtensionModels(result.input.model)) :
            IsObj(GetAttr(result.v, e))
              => /\ ExcludedUnsetOrKept(GetAttr(result.input.obj, e),
                                        GetAttr(result.v, e), e)
                 /\ SubAttributesKept(GetAttr(result.input.obj, e),
                                      GetAttr(result.v, e), e)

\* A fill of a device a server returned, under the default mutability: the
\* read-only serial number is the server's, the hardware is new and its
\* read-only revision unset.
C19_Witness ==
  /\ Filled
  /\ result.input.obj = DeviceFromServer
  /\ result.input.mutability.none
  /\ GetAttr(result.v, "serial") = StrV(<<"s">>)
  /\ GetAttr(result.v, "hardware") # GetAttr(result.input.obj, "hardware")
  /\ IsNone(GetAttr(GetAttr(result.v, "hardware"), "revision"))


\* Whether the last operation was a call of a decorated check.
Checked == result.op = "check"

\* Whether some tag of the filter matches some tag of the check called:
\* they are equal, or the filter tag is a ':'-separated segment of it.
SomeTagMatches(filter_tags) ==
  \E filter_tag \in filter_tags : \E func_tag \in result.input.tags :
    \/ filter_tag = func_tag
    \/ \E k \in 1..Len(func_tag) :
         /\ func_tag[k] # ":"
         /\ filter_tag = <<func_tag[k]>>
         /\ Len(func_tag) > 1

\* Whether the filters of the configuration let the check called through.
Selected ==
  /\ result.input.conf.include_tags = {}
       \/ SomeTagMatches(result.input.conf.include_tags)
  /\ result.input.conf.exclude_tags = {}
       \/ ~SomeTagMatches(result.input.conf.exclude_tags)

\* The call returned one SKIPPED result, asked the client nothing and left
\* the registry alone.
SkippedOnly ==
  /\ result.exc = ""
  /\ IsList(result.v)
  /\ Len(result.v.items) = 1
  /\ result.v.items[1].status = "SKIPPED"
  /\ calls = <<>>
  /\ resources = result.before

\* C20 as stated: the body of a decorated check runs exactly when the
\* filters let it through, a filter tag matching a check tag it is equal
\* to or a segment of; otherwise the call returns one SKIPPED result, with
\* no client operation and no cleanup.
C20_RunsIffSelected ==
  Checked => /\ result.ran <=> Selected
             /\ ~result.ran => SkippedOnly

\* C20: the same for a check that does not carry the tag '*'; a check that
\* carries '*' passes every include filter, whatever the filter holds.
C20_RunsIffSelectedOrStar ==
  Checked =>
    /\ <<"*">> \notin result.input.tags => (result.ran <=> Selected)
    /\ (<<"*">> \in result.input.tags /\ result.input.conf.exclude_tags = {})
         => result.ran
    /\ ~result.ran => SkippedOnly

\* A check skipped by the include filter while the registry holds a user
\* with an id: no delete was sent.
C20_Witness ==
  /\ Checked
  /\ ~result.ran
  /\ result.input.conf.include_tags # {}
  /\ ~Selected
  /\ resources # <<>>
  /\ ~IsNone(GetAttr(resources[1], "id"))
  /\ SkippedOnly

\* ------------------------------------------------------- C21 .. C30

\* Whether the one result the call returned has the status given.
Returned(status) ==
  /\ result.exc = ""
  /\ IsList(result.v)
  /\ Len(result.v.items) = 1
  /\ result.v.items[1].status = status

\* C21 as stated: a check that carries the tag '*' is always executed:
\* whatever include_tags and exclude_tags hold, its body runs and the call
\* never returns a SKIPPED result.
C21_StarAlwaysRuns ==
  (Checked /\ <<"*">> \in result.input.tags) =>
    /\ result.ran
    /\ ~Returned("SKIPPED")


\* The calls of one kind among those the client received.
CallsOf(op) == SelectSeq(calls, LAMBDA call : call.op = op)

\* What the body of the check called raised, "" when it returned: the
\* exception of the function that raises, the SCIMTesterError of
\* check_result, the error of the create that failed or the ValueError for
\* an answer that is no resource.
BodyRaised ==
  CASE result.input.func = "raises" -> "Test error"
    [] result.input.func = "fails" ->
         IF result.input.conf.raise_exceptions THEN "No Schema" ELSE ""
    [] result.input.func \in {"creates", "depends"} /\ CallsOf("create") # <<>> ->
         IF Failed(CallsOf("create")[Len(CallsOf("create"))])
           THEN CallsOf("create")[Len(CallsOf("create"))].resp.e
         ELSE IF ~IsObj(CallsOf("create")[Len(CallsOf("create"))].resp)
           THEN "ValueError"
         ELSE ""
    [] OTHER -> ""

\* C22: once the body of a decorated check has started, cleanup() runs
\* exactly once after it: the client receives one delete per registered
\* resource with an id, newest first, whether the body returned or raised
\* and whatever raise_exceptions is; and when the body raised and
\* raise_exceptions is true the call raises the body's exception, never one
\* of a delete that failed.
C22_CleanupOnceOriginalException ==
  (Checked /\ result.ran) =>
    /\ Requests(CallsOf("delete")) = DeletesOwed(resources)
    /\ (BodyRaised # "" /\ result.input.conf.raise_exceptions)
         => result.exc = BodyRaised

\* A check whose body raised under raise_exceptions while the registry held
\* a resource with an id: the delete was sent, it failed, and the body's
\* exception reached the caller.
C22_Witness ==
  /\ Checked
  /\ result.ran
  /\ result.input.conf.raise_exceptions
  /\ result.input.func = "raises"
  /\ result.exc = "Test error"
  /\ CallsOf("delete") # <<>>
  /\ Failed(CallsOf("delete")[1])


\* C23: with raise_exceptions false an exception raised by the body does
\* not reach the caller: the call returns one result with status ERROR
\* whose reason is the exception's message.
C23_ExceptionBecomesErrorResult ==
  (Checked /\ result.ran /\ ~result.input.conf.raise_exceptions
     /\ BodyRaised # "") =>
    /\ Returned("ERROR")
    /\ result.v.items[1].reason = BodyRaised

\* A check under raise_exceptions false whose create failed with a client
\* error, or whose body raised another exception: the call returned one
\* ERROR result carrying the message.
C23_Witness ==
  /\ Checked
  /\ result.ran
  /\ ~result.input.conf.raise_exceptions
  /\ BodyRaised \in {"SCIMClientError", "Test error"}
  /\ Returned("ERROR")
  /\ result.v.items[1].reason = BodyRaised
  /\ result.input.func = "creates" => Failed(calls[1])


\* C24 as stated: with raise_exceptions true a decorated check whose body
\* returns a result with status ERROR does not return it: the call raises
\* SCIMTesterError, whose message is that result's reason.
C24_ErrorResultRaises ==
  (Checked /\ result.ran /\ result.input.conf.raise_exceptions
     /\ result.input.func = "returns_error") =>
    result.exc = "Check failed"


\* The positions in calls of the calls of one kind.
PositionsOf(op) == {i \in 1..Len(calls) : calls[i].op = op}

\* C25: the lifecycle manager deletes nothing while the check that created
\* it is still running: among the calls of one check every delete comes
\* after every create, and each resource the check registered is deleted
\* after the last call of the body.
C25_DeletesOnlyInTeardown ==
  Checked =>
    /\ \A i \in PositionsOf("delete") : \A j \in PositionsOf("create") : j < i
    /\ \A k \in (Len(result.before) + 1)..Len(resources) :
         HasId(resources[k]) =>
           \E i \in PositionsOf("delete") :
             /\ calls[i].arg = GetAttr(resources[k], "id")
             /\ \A j \in PositionsOf("create") : j < i

\* A check that created a device and, before it, the user the device
\* refers to as its owner: both were deleted, after both creates.
C25_Witness ==
  /\ Checked
  /\ result.input.func = "depends"
  /\ Len(resources) = Len(result.before) + 2
  /\ Cardinality(PositionsOf("create")) = 2
  /\ Cardinality(PositionsOf("delete")) = 2
  /\ GetAttr(calls[2].arg, "owner") = LocationOf(resources[1])


\* C26 as stated: the registry belongs to one check invocation: when the
\* body of a decorated check starts the registry holds no resource
\* registered by an earlier check on the same context, so the teardown of
\* a check sends deletes for the resources that check registered only.
C26_RegistryPerCheck ==
  (Checked /\ result.ran) =>
    /\ result.before = <<>>
    /\ \A i \in PositionsOf("delete") :
         \E k \in (Len(result.before) + 1)..Len(resources) :
           calls[i].arg = GetAttr(resources[k], "id")

\* C27: create_and_register ends without exhausting the stack for every
\* kind of the schema, a kind whose required reference targets its own
\* kind and two kinds that require each other included: the nesting of
\* create_and_register calls made for required references has an end.
C27_CreateTerminates ==
  result.op = "create_and_register_all" => result.exc # "RecursionError"


\* Whether the value x sits somewhere in the value v.
RECURSIVE Holds(_, _)
Holds(v, x) ==
  \/ v = x
  \/ IsList(v) /\ \E k \in 1..Len(v.items) : Holds(v.items[k], x)
  \/ IsObj(v) /\ \E n \in DOMAIN v.f : Holds(v.f[n], x)

\* Whether resource a holds a reference to resource b: the location the
\* server gave b.
RefersTo(a, b) == Truthy(LocationOf(b)) /\ Holds(a, LocationOf(b))

\* The resources the server answered the creates among the calls cs with,
\* in the order of the calls.
ResourcesAnswered(cs) ==
  [k \in 1..Len(SelectSeq(cs, LAMBDA c : c.op = "create" /\ IsObj(c.resp))) |->
     SelectSeq(cs, LAMBDA c : c.op = "create" /\ IsObj(c.resp))[k].resp]

\* Whether call k of cs asks for the deletion of resource r.
Deletes(cs, k, r) ==
  cs[k].op = "delete" /\ cs[k].model = r.model /\ cs[k].arg = GetAttr(r, "id")

\* Whether the last operation was a create_and_register with fill_all that
\* returned.
CreatedAll == result.op = "create_and_register_all" /\ result.exc = ""

\* The largest registry whose cleanups are enumerated: a cleanup of n
\* resources has 3^n outcomes.
MaxCleaned == 5

\* Whether every cleanup of the registry asks for the deletion of
\* resource j before that of resource i.
DeletedBefore(j, i) ==
  \A o \in cleanup(Now) :
    \E kj, ki \in 1..Len(o.w.calls) :
      /\ kj < ki
      /\ Deletes(o.w.calls, kj, resources[j])
      /\ Deletes(o.w.calls, ki, resources[i])

\* C28: after create_and_register the registry holds the resources created
\* in the order of their creation, the dependencies made for the reference
\* attributes of the new object before the object itself, which is last;
\* a registered resource that refers to another one stands after it, and
\* every cleanup of the registry asks for the deletion of the referring
\* resource before that of the resource it refers to.
C28_DependenciesFirst ==
  CreatedAll =>
    /\ resources = result.before \o ResourcesAnswered(calls)
    /\ resources[Len(resources)] = result.v
    /\ calls[Len(calls)].resp = result.v
    /\ \A i, j \in 1..Len(resources) :
         (i # j /\ RefersTo(resources[j], resources[i])) =>
           /\ i < j
           /\ (Len(resources) <= MaxCleaned /\ HasId(resources[j])) =>
                DeletedBefore(j, i)

\* A group created with every attribute filled, whose member is a user
\* created for it: the user stands before the group that refers to it,
\* the group is last, and each cleanup deletes the group first.
C28_Witness ==
  /\ CreatedAll
  /\ result.input.model = "Group"
  /\ Len(resources) <= MaxCleaned
  /\ HasId(resources[Len(resources)])
  /\ \E i \in 1..(Len(resources) - 1) :
       /\ resources[i].model = "User"
       /\ RefersTo(resources[Len(resources)], resources[i])
       /\ DeletedBefore(Len(resources), i)


\* Whether call k of the last operation created a resource that came back
\* with a location.
CreatedWithLocation(k) ==
  calls[k].op = "create" /\ IsObj(calls[k].resp) /\ HasLocation(calls[k].resp)

\* C29: every resource created while fill_with_random_values fills an
\* object is referred to when the call returns: by the filled object, or,
\* for the dependency of a dependency, by another resource created during
\* the call. No resource is created for a value that is then dropped.
C29_DependenciesReferenced ==
  (result.op = "fill_with_random_values" /\ result.exc = "") =>
    \A k \in 1..Len(calls) :
      CreatedWithLocation(k) =>
        \/ Holds(result.v, LocationOf(calls[k].resp))
        \/ \E other \in (1..Len(calls)) \ {k} :
             Holds(calls[other].resp, LocationOf(calls[k].resp))


\* Whether every multi-valued attribute in the value v, at any depth, is
\* unset or holds a list.
RECURSIVE CollectionsKept(_)
CollectionsKept(v) ==
  /\ IsList(v) => \A k \in 1..Len(v.items) : CollectionsKept(v.items[k])
  /\ IsObj(v) =>
       \A n \in DOMAIN v.f :
         /\ get_field_multiplicity(v.model, n) =>
              IsNone(v.f[n]) \/ IsList(v.f[n])
         /\ CollectionsKept(v.f[n])

\* C30: after set_value_by_urn on an instance whose multi-valued attributes
\* are unset or lists, they still are, whatever the path: a path through
\* a multi-valued complex attribute that is unset stores no single
\* sub-object in it.
C30_MultiValuedStayCollections ==
  (result.op = "set_value_by_urn" /\ CollectionsKept(result.input.obj)) =>
    CollectionsKept(result.v)

====
